---- MODULE Spec2Model ----
(***************************************************************************)
(* Model of the pooled gemini CLI service: ProcessPool                     *)
(* (app/services/process_pool.py), the GeminiCLIProcess worker             *)
(* (app/services/gemini_cli.py) and the chat_completions request handler   *)
(* with its streaming generator (app/main.py).                             *)
(*                                                                         *)
(* Everything runs on one asyncio event loop.  A task runs from one        *)
(* suspension point to the next without interruption; the variable ready   *)
(* is the loop's FIFO list of runnable tasks (call_soon order), and a      *)
(* task step is taken by the task at the head of ready.  The events that   *)
(* make a task runnable are: its request arriving, the future it waits     *)
(* on in Queue.get / Queue.put being resolved, its task being cancelled,   *)
(* and the completion of the read it waits on in execute_command.          *)
(*                                                                         *)
(* chat_completions is modelled from its try block (main.py line 155) on:   *)
(* the lines before it build the request id and the debug record and touch *)
(* no pool state.  (Line 147 calls uuid.uuid4(), and main.py does not       *)
(* import uuid; the model takes the request id as given.)                  *)
(*                                                                         *)
(* Spec is the service with its handlers, in which a command is one step   *)
(* with an outcome.  SpecPool is the pool under arbitrary callers.         *)
(* SpecCmd follows one worker's execute_command and stop() await by await, *)
(* with the subprocess writing to its pipes.  SpecLive is the service      *)
(* under requests that keep arriving, with the fairness of the event loop. *)
(* SpecHttp follows one request at a time to its HTTP status and its       *)
(* server-sent events, in app/main.py and app/main_simple.py.  SpecSan     *)
(* applies the two sanitizers of output_comparison.py to bounded texts.    *)
(* SpecChunk follows execute_prompt_stream (app/services/gemini_simple.py) *)
(* read by read, and SpecShot follows execute_prompt and its subprocess.   *)
(***************************************************************************)
EXTENDS Integers, Sequences, FiniteSets

\* Bounds of the model.
NumRequests == 3
MaxPoolSize == 2

Requests == 1..NumRequests
Workers  == 1..MaxPoolSize

\* process = None in chat_completions; no task.
NoProcess == 0
NoTask    == 0

VARIABLES
    pool_size,      \* ProcessPool.pool_size
    poolState,      \* lifecycle: "new", "ready", "failed", "stopping", "stopped", "stop_failed"
    initIndex,      \* next i of the loop of initialize_pool
    stopIndex,      \* next index into processes of the loop of shutdown_pool
    processes,      \* ProcessPool.processes: the started workers, in order
    startFailed,    \* workers whose start() raised
    available,      \* ProcessPool.available_processes: the queue's items, in order
    getters,        \* the queue's _getters: tasks waiting in get()
    putters,        \* the queue's _putters: tasks waiting in put()
    putItem,        \* the item a task blocked in put() is putting
    proc,           \* GeminiCLIProcess.process per worker: "none", "running", "exited"
    ready,          \* the event loop's runnable tasks, first to run first
    pc,             \* where each request task is
    stream,         \* request.stream
    process,        \* the local variable process of chat_completions
    released,       \* the workers the request passed to release_process, in order
    failedWorkers,  \* workers whose subprocess exited while a command was in flight on them
    cmdPc,          \* where the call of execute_command on the worker under test is
    cmdStream,      \* its parameter stream
    stdout_buffer,  \* its local list stdout_buffer
    stderr_buffer,  \* its local list stderr_buffer
    yielded,        \* the tuples the generator has yielded to its caller
    exc,            \* the exception it is raising or has raised; "none"
    stdoutPipe,     \* lines the subprocess wrote to stdout, not yet read
    stderrPipe,     \* text the subprocess wrote to stderr, not yet read
    stdinClosed,    \* the subprocess's stdin pipe was closed
    canEcho,        \* the subprocess has received a delimiter it has not echoed
    emitted,        \* lines the subprocess wrote to stdout during the call
    errEmitted,     \* text the subprocess wrote to stderr during the call
    stoppedDuring,  \* stop() terminated the subprocess during the call
    stopPc,         \* where the call of stop() on the worker under test is
    nCommands,      \* calls of execute_command so far
    nWrites,        \* lines the subprocess has written so far
    nStops,         \* calls of stop() so far
    eof,            \* readline returned the empty bytes of end-of-stream in the call
    died,           \* the subprocess has exited and asyncio has not recorded it: returncode is still None
    endpoint,       \* the application serving the request: "pooled" (main.py) or "simple" (main_simple.py)
    reqStream,      \* request.stream of the request whose response is followed
    hpc,            \* where that request's handler or stream generator is
    status_code,    \* the HTTP status of its response; NoStatus before the response starts
    events,         \* the server-sent events of its streaming response, in order
    usage,          \* the usage fields of its response or terminal event; <<>> if none
    timedOut,       \* a command of the request timed out
    cmdFailed,      \* a command of the request failed otherwise
    statsOut,       \* the output text of its "/stats" command; NoText before
    full_prompt,    \* the request's user messages joined; NoPrompt before
    raw_output,     \* the raw text given to the sanitizer, a sequence of characters
    cleaned,        \* advanced_ansi_cleaning(raw_output)
    recleaned,      \* advanced_ansi_cleaning(cleaned)
    extracted,      \* smart_content_extraction(raw_output)
    reextracted,    \* smart_content_extraction(extracted)
    sanPc,          \* which of these have been computed
    stream_input,   \* the text the subprocess writes to stdout in all, a sequence of characters
    unread,         \* the bytes of it that execute_prompt_stream has not read yet
    buffer,         \* execute_prompt_stream's local variable buffer
    fragments,      \* the fragments execute_prompt_stream has yielded, in order
    chunkPc,        \* "idle", "reading", or how the generator ended
    shotPc,         \* execute_prompt: "idle", "spawn", "communicate", or how the call ended
    child,          \* the subprocess execute_prompt spawned: its state and returncode
    out_pipe,       \* the bytes the subprocess has written to its stdout
    err_pipe,       \* the bytes the subprocess has written to its stderr
    response,       \* the text execute_prompt returned
    error_msg       \* error_msg of the RuntimeError raised for a non-zero exit code

vars == <<pool_size, poolState, initIndex, stopIndex, processes, startFailed,
          available, getters, putters, putItem, proc, ready, pc, stream,
          process, released, failedWorkers,
          cmdPc, cmdStream, stdout_buffer, stderr_buffer, yielded, exc,
          stdoutPipe, stderrPipe, stdinClosed, canEcho, emitted, errEmitted,
          stoppedDuring, stopPc, nCommands, nWrites, nStops, eof, died,
          endpoint, reqStream, hpc, status_code, events, usage, timedOut,
          cmdFailed, statsOut, full_prompt,
          raw_output, cleaned, recleaned, extracted, reextracted, sanPc,
          stream_input, unread, buffer, fragments, chunkPc,
          shotPc, child, out_pipe, err_pipe, response, error_msg>>

poolVars == <<pool_size, poolState, initIndex, stopIndex, processes, startFailed>>

\* The queue's state and the request handlers'.
handlerVars == <<available, getters, putters, putItem, ready, pc, stream,
                 process, released, failedWorkers>>

\* The state of one call of execute_command and of stop() on one worker, and
\* of that worker's pipes.
cmdVars == <<cmdPc, cmdStream, stdout_buffer, stderr_buffer, yielded, exc,
             stdoutPipe, stderrPipe, stdinClosed, canEcho, emitted, errEmitted,
             stoppedDuring, stopPc, nCommands, nWrites, nStops, eof, died>>

\* The request whose response is followed, and its response.
httpVars == <<endpoint, reqStream, hpc, status_code, events, usage, timedOut,
              cmdFailed, statsOut, full_prompt>>

\* The state of the parts that are followed on their own.
\* The sanitizer's input and results.
sanVars == <<raw_output, cleaned, recleaned, extracted, reextracted, sanPc>>

\* One call of execute_prompt_stream and its subprocess's output.
chunkVars == <<stream_input, unread, buffer, fragments, chunkPc>>

\* One call of execute_prompt and the subprocess it spawned.
shotVars == <<shotPc, child, out_pipe, err_pipe, response, error_msg>>

auxVars == <<httpVars, sanVars, chunkVars, shotVars>>

----------------------------------------------------------------------------
\* Helpers on sequences.

Range(s) == {s[i] : i \in 1..Len(s)}

RECURSIVE Without(_, _)
Without(s, x) ==
    IF s = <<>> THEN <<>>
    ELSE IF Head(s) = x THEN Without(Tail(s), x)
    ELSE <<Head(s)>> \o Without(Tail(s), x)

----------------------------------------------------------------------------
\* asyncio.Queue as ProcessPool uses it.

\* The queue's maxsize: asyncio.Queue(maxsize=pool_size).
QueueMaxsizeUnbounded(ps) == 0
QueueMaxsize(ps) == ps

\* Queue.full(): a maxsize <= 0 means no limit.
Full(q) == QueueMaxsize(pool_size) > 0 /\ Len(q) >= QueueMaxsize(pool_size)

\* The future of a waiting task is done once the task was cancelled.
WaiterDone(t) == pc[t] \in {"cancelled"}

\* Queue._wakeup_next: pops waiters up to and including the first whose
\* future is not done, and resolves that one.  The task woken, or NoTask.
RECURSIVE WokenOf(_)
WokenOf(ws) ==
    IF ws = <<>> THEN NoTask
    ELSE IF WaiterDone(Head(ws)) THEN WokenOf(Tail(ws))
    ELSE Head(ws)

RECURSIVE AfterWakeup(_)
AfterWakeup(ws) ==
    IF ws = <<>> THEN <<>>
    ELSE IF WaiterDone(Head(ws)) THEN AfterWakeup(Tail(ws))
    ELSE Tail(ws)

\* A resolved future schedules its task: call_soon appends to ready.
Scheduled(rdy, t) == IF t = NoTask THEN rdy ELSE Append(rdy, t)

\* The task woken gets its new position; NoTask changes nothing.
Wake(pcs, t, label) == IF t = NoTask THEN pcs ELSE [pcs EXCEPT ![t] = label]

----------------------------------------------------------------------------
\* ProcessPool.initialize_pool.

\* The queue after the body of the try block for a worker whose start() succeeded.
AvailableAfterStartMissing(q, w) == q
AvailableAfterStart(q, w) == Append(q, w)

\* After the loop: raise RuntimeError if no process was started.
InitializeOutcomeStrict(procs) == IF Len(procs) < pool_size THEN "failed" ELSE "ready"
InitializeOutcome(procs) == IF procs = <<>> THEN "failed" ELSE "ready"

\* No response yet, and no "/stats" output.
NoStatus == 0
NoText == "<none>"
NoPrompt == [len |-> 0, blank |-> TRUE]

\* No request is being followed yet.
HttpInit ==
    /\ endpoint = "pooled"
    /\ reqStream = FALSE
    /\ hpc = "idle"
    /\ status_code = NoStatus
    /\ events = <<>>
    /\ usage = <<>>
    /\ timedOut = FALSE
    /\ cmdFailed = FALSE
    /\ statsOut = NoText
    /\ full_prompt = NoPrompt

\* The sanitizer has been given nothing.
SanInit ==
    /\ raw_output = <<>>
    /\ cleaned = <<>>
    /\ recleaned = <<>>
    /\ extracted = <<>>
    /\ reextracted = <<>>
    /\ sanPc = "idle"

\* No call of execute_prompt_stream.
ChunkInit ==
    /\ stream_input = <<>>
    /\ unread = <<>>
    /\ buffer = <<>>
    /\ fragments = <<>>
    /\ chunkPc = "idle"

\* process.returncode of a subprocess that has not exited: None.
NoReturncode == -1

\* No call of execute_prompt, and no subprocess of it.
ShotInit ==
    /\ shotPc = "idle"
    /\ child = [state |-> "none", returncode |-> NoReturncode]
    /\ out_pipe = <<>>
    /\ err_pipe = <<>>
    /\ response = <<>>
    /\ error_msg = <<>>

AuxInit == HttpInit /\ SanInit /\ ChunkInit /\ ShotInit

\* No call of execute_command or stop() yet; the pipes are empty.
CmdInit ==
    /\ cmdPc = "idle"
    /\ cmdStream = FALSE
    /\ stdout_buffer = <<>>
    /\ stderr_buffer = <<>>
    /\ yielded = <<>>
    /\ exc = "none"
    /\ stdoutPipe = <<>>
    /\ stderrPipe = <<>>
    /\ stdinClosed = FALSE
    /\ canEcho = FALSE
    /\ emitted = <<>>
    /\ errEmitted = <<>>
    /\ stoppedDuring = FALSE
    /\ stopPc = "idle"
    /\ nCommands = 0
    /\ nWrites = 0
    /\ nStops = 0
    /\ eof = FALSE
    /\ died = FALSE

\* Nothing has been started and no request has arrived.
ServiceInit ==
    /\ pool_size \in 1..MaxPoolSize
    /\ poolState = "new"
    /\ initIndex = 0
    /\ stopIndex = 1
    /\ processes = <<>>
    /\ startFailed = {}
    /\ available = <<>>
    /\ getters = <<>>
    /\ putters = <<>>
    /\ putItem = [r \in Requests |-> NoProcess]
    /\ proc = [w \in Workers |-> "none"]
    /\ ready = <<>>
    /\ pc = [r \in Requests |-> "idle"]
    /\ stream = [r \in Requests |-> FALSE]
    /\ process = [r \in Requests |-> NoProcess]
    /\ released = [r \in Requests |-> <<>>]
    /\ failedWorkers = {}

Init ==
    /\ CmdInit
    /\ ServiceInit
    /\ AuxInit

\* One iteration of the loop of initialize_pool: worker initIndex + 1 is
\* constructed and started; started says whether start() returned or raised.
\* The last iteration runs on into the check after the loop.  A put on a
\* full queue would suspend initialize_pool for good ("init_blocked": nothing
\* takes from the queue during startup).
InitializeStep(started) ==
    /\ poolState = "new"
    /\ initIndex < pool_size
    /\ LET w == initIndex + 1
           blocked == started /\ Full(available)
       IN  /\ initIndex' = initIndex + 1
           /\ proc' = IF started THEN [proc EXCEPT ![w] = "running"] ELSE proc
           /\ processes' = IF started THEN Append(processes, w) ELSE processes
           /\ startFailed' = IF started THEN startFailed ELSE startFailed \cup {w}
           /\ available' = IF started /\ ~blocked
                           THEN AvailableAfterStart(available, w) ELSE available
           /\ poolState' = IF blocked THEN "init_blocked"
                           ELSE IF initIndex + 1 = pool_size
                           THEN InitializeOutcome(processes')
                           ELSE "new"
    /\ UNCHANGED <<pool_size, stopIndex, getters, putters, putItem, ready, pc,
                   stream, process, released>>
    /\ UNCHANGED <<cmdVars, failedWorkers>>
    /\ UNCHANGED auxVars

----------------------------------------------------------------------------
\* GeminiCLIProcess.

\* execute_command's first check: the subprocess handle is set and has no returncode.
IsRunning(w) == proc[w] = "running"

\* A command of some request is in flight on worker w.
InUse(w) == \E r \in Requests : process[r] = w /\ pc[r] \in {"clear", "prompt", "stats"}

\* The subprocess exits on its own.
SubprocessExit(w) ==
    /\ proc[w] = "running"
    /\ proc' = [proc EXCEPT ![w] = "exited"]
    /\ failedWorkers' = IF InUse(w) THEN failedWorkers \cup {w} ELSE failedWorkers
    /\ UNCHANGED <<poolVars, available, getters, putters, putItem, ready, pc,
                   stream, process, released>>
    /\ UNCHANGED cmdVars
    /\ UNCHANGED auxVars

\* stop() when the handle is set and terminate() succeeds: terminate, wait
\* (kill after 5 s), clear the handle.  With the handle unset stop() does nothing.
ProcAfterStop(w) == [proc EXCEPT ![w] = "none"]

----------------------------------------------------------------------------
\* ProcessPool.shutdown_pool.

\* One iteration of the loop of shutdown_pool.  On a subprocess that has
\* already exited, terminate() raises ProcessLookupError once the transport
\* is closed (raised is TRUE), which ends shutdown_pool with the exception.
ShutdownStep(raised) ==
    /\ poolState \in {"ready", "stopping"}
    /\ stopIndex <= Len(processes)
    /\ LET w == processes[stopIndex]
       IN  /\ raised => proc[w] = "exited"
           /\ proc' = IF raised THEN proc ELSE ProcAfterStop(w)
           /\ stopIndex' = stopIndex + 1
           /\ poolState' = IF raised THEN "stop_failed"
                           ELSE IF stopIndex = Len(processes) THEN "stopped"
                           ELSE "stopping"
    /\ UNCHANGED <<pool_size, initIndex, processes, startFailed, available,
                   getters, putters, putItem, ready, pc, stream, process, released>>
    /\ UNCHANGED <<cmdVars, failedWorkers>>
    /\ UNCHANGED auxVars

----------------------------------------------------------------------------
\* chat_completions and generate_stream_response.

\* The task at the head of the loop's ready list runs next.
Running(r) == ready # <<>> /\ Head(ready) = r

Commands == {"clear", "prompt", "stats"}

\* The command issued after command c has returned; "end" after the last.
NextCommand(c) ==
    CASE c = "clear"  -> "prompt"
      [] c = "prompt" -> "stats"
      [] c = "stats"  -> "end"

\* The finally block of chat_completions: release whenever process is set,
\* whatever ended the try block (outcome).
ReleasesOnExitOnlyOnSuccess(w, outcome) == w # NoProcess /\ outcome = "ok"
ReleasesOnExit(w, outcome) == w # NoProcess

\* acquire_process: the queue's items after get_nowait took the first.
AvailableAfterGetPeek(q) == q
AvailableAfterGet(q) == Tail(q)

\* release_process: the queue's items after put_nowait.
AvailableAfterReleaseTwice(q, w) == Append(Append(q, w), w)
AvailableAfterRelease(q, w) == Append(q, w)

\* What a request that has left chat_completions goes on to: the streaming
\* response it returned is iterated next by the framework, in a later step of
\* the same task; any other exit ends the request.
AfterHandler(r, outcome, rdy, pcs) ==
    IF stream[r] /\ outcome = "ok"
    THEN /\ pc' = [pcs EXCEPT ![r] = "stream_start"]
         /\ ready' = Append(rdy, r)
    ELSE /\ pc' = [pcs EXCEPT ![r] = "done"]
         /\ ready' = rdy

\* The exit of chat_completions for request r holding w (NoProcess: none),
\* the try block having ended with outcome; q, ps, rdy and pcs are the
\* queue's items, its putters, the ready list and the tasks' positions as the
\* step has left them so far.  put() on a full queue suspends the task.
ExitHandler(r, w, outcome, q, ps, rdy, pcs) ==
    IF ~ReleasesOnExit(w, outcome)
    THEN /\ available' = q
         /\ putters' = ps
         /\ AfterHandler(r, outcome, rdy, pcs)
         /\ UNCHANGED <<getters, putItem, released>>
    ELSE /\ released' = [released EXCEPT ![r] = Append(@, w)]
         /\ IF Full(q)
            THEN /\ available' = q
                 /\ putters' = Append(ps, r)
                 /\ putItem' = [putItem EXCEPT ![r] = w]
                 /\ pc' = [pcs EXCEPT ![r] = "putwait"]
                 /\ ready' = rdy
                 /\ UNCHANGED getters
            ELSE LET g == WokenOf(getters)
                 IN  /\ available' = AvailableAfterRelease(q, w)
                     /\ getters' = AfterWakeup(getters)
                     /\ putters' = ps
                     /\ AfterHandler(r, outcome, Scheduled(rdy, g), Wake(pcs, g, "woken"))
                     /\ UNCHANGED putItem

\* A request arrives: its task is created and scheduled.  Requests are
\* numbered in their order of arrival, which (the ready list being FIFO) is
\* also the order in which they call acquire_process.
Arrive(r, s) ==
    /\ poolState = "ready"
    /\ pc[r] = "idle"
    /\ \A r2 \in Requests : r2 < r => pc[r2] # "idle"
    /\ pc' = [pc EXCEPT ![r] = "start"]
    /\ stream' = [stream EXCEPT ![r] = s]
    /\ ready' = Append(ready, r)
    /\ UNCHANGED <<poolVars, available, getters, putters, putItem, proc,
                   process, released>>
    /\ UNCHANGED <<cmdVars, failedWorkers>>
    /\ UNCHANGED auxVars

\* The step of chat_completions that calls acquire_process, or resumes in it
\* after the future it waited on was resolved.  Queue.get: while the queue is
\* empty, append a new future to _getters and wait; otherwise take the first
\* item (get_nowait, which wakes the next putter).  With a worker in hand
\* the step runs on: a streaming request returns the StreamingResponse, so
\* the finally block releases the worker; any other request starts "/clear".
AcquireStep(r) ==
    /\ Running(r)
    /\ pc[r] \in {"start", "woken"}
    /\ IF available = <<>>
       THEN /\ getters' = Append(getters, r)
            /\ pc' = [pc EXCEPT ![r] = "waiting"]
            /\ ready' = Tail(ready)
            /\ UNCHANGED <<available, putters, putItem, process, released>>
       ELSE LET w   == Head(available)
                q   == AvailableAfterGet(available)
                p   == WokenOf(putters)
                ps  == AfterWakeup(putters)
                rdy == Scheduled(Tail(ready), p)
                pcs == Wake(pc, p, "putwoken")
            IN  /\ process' = [process EXCEPT ![r] = w]
                /\ IF stream[r]
                   THEN ExitHandler(r, w, "ok", q, ps, rdy, pcs)
                   ELSE IF IsRunning(w)
                   THEN /\ pc' = [pcs EXCEPT ![r] = "clear"]
                        /\ available' = q
                        /\ putters' = ps
                        /\ ready' = rdy
                        /\ UNCHANGED <<getters, putItem, released>>
                   ELSE ExitHandler(r, w, "error", q, ps, rdy, pcs)
    /\ UNCHANGED <<poolVars, proc, stream>>
    /\ UNCHANGED <<cmdVars, failedWorkers>>
    /\ UNCHANGED auxVars

\* The task of a request waiting in acquire_process is cancelled: the future
\* it waits on is cancelled with it and the task is scheduled; if the future
\* was already resolved, the CancelledError is delivered at the task's next step.
Cancel(r) ==
    /\ pc[r] \in {"waiting", "woken"}
    /\ IF pc[r] = "waiting"
       THEN /\ pc' = [pc EXCEPT ![r] = "cancelled"]
            /\ ready' = Append(ready, r)
       ELSE /\ pc' = [pc EXCEPT ![r] = "woken_cancelled"]
            /\ ready' = ready
    /\ UNCHANGED <<poolVars, available, getters, putters, putItem, proc,
                   stream, process, released>>
    /\ UNCHANGED <<cmdVars, failedWorkers>>
    /\ UNCHANGED auxVars

\* The except clause of Queue.get: remove the future from _getters; if the
\* queue is not empty and the future was resolved rather than cancelled, wake
\* the next getter; re-raise.  In chat_completions process is still None, so
\* the finally block releases nothing.
CancelStep(r) ==
    /\ Running(r)
    /\ pc[r] \in {"cancelled", "woken_cancelled"}
    /\ LET gs == Without(getters, r)
           g  == IF available # <<>> /\ pc[r] = "woken_cancelled"
                 THEN WokenOf(gs) ELSE NoTask
       IN  /\ ~ReleasesOnExit(process[r], "cancelled")
           /\ getters' = IF g = NoTask THEN gs ELSE AfterWakeup(gs)
           /\ pc' = [Wake(pc, g, "woken") EXCEPT ![r] = "done"]
           /\ ready' = Scheduled(Tail(ready), g)
    /\ UNCHANGED <<poolVars, available, putters, putItem, proc, stream, process, released>>
    /\ UNCHANGED <<cmdVars, failedWorkers>>
    /\ UNCHANGED auxVars

\* execute_command up to its first read, on worker w: RuntimeError unless the
\* subprocess is running; otherwise the command and the delimiter are
\* written to stdin and the task waits in readline.
CanSendUnchecked(w) == TRUE
CanSend(w) == IsRunning(w)

\* How execute_command ends: the delimiter line was read or stdout hit
\* end-of-stream (it returns: "ok"), the read timed out ("timeout"), or an
\* exception other than a timeout was raised ("error").
CommandOutcomes == {"ok", "timeout", "error"}

\* The read the task waits on in execute_command completes (data, end of
\* stream, or the timeout firing): the waiting task is scheduled.
CommandCompletes(r) ==
    /\ pc[r] \in Commands
    /\ r \notin Range(ready)
    /\ ready' = Append(ready, r)
    /\ UNCHANGED <<poolVars, available, getters, putters, putItem, proc, pc,
                   stream, process, released>>
    /\ UNCHANGED <<cmdVars, failedWorkers>>
    /\ UNCHANGED auxVars

\* The step of a non-streaming chat_completions in which its command returns
\* or raises (o).  An exception leaves the try block through an except clause
\* and the finally block; a result goes on to the next command, which raises
\* RuntimeError at once if the subprocess is not running; after "/stats" the
\* response is built and the handler returns through the finally block.
\* (A returned result never carries stderr text: execute_command appends to
\* stderr_buffer only on paths that raise.)
HandlerStep(r, o) ==
    /\ Running(r)
    /\ ~stream[r]
    /\ pc[r] \in Commands
    /\ LET w    == process[r]
           next == NextCommand(pc[r])
       IN  IF o = "ok" /\ next # "end" /\ CanSend(w)
           THEN /\ pc' = [pc EXCEPT ![r] = next]
                /\ ready' = Tail(ready)
                /\ UNCHANGED <<available, getters, putters, putItem, released>>
           ELSE ExitHandler(r, w,
                            IF o = "ok" /\ next # "end" THEN "error" ELSE o,
                            available, putters, Tail(ready), pc)
    /\ UNCHANGED <<poolVars, proc, stream, process>>
    /\ UNCHANGED <<cmdVars, failedWorkers>>
    /\ UNCHANGED auxVars

\* The first step of generate_stream_response, run by the framework after
\* chat_completions has returned: "/clear" is sent, or RuntimeError ends the
\* generator.
StreamStart(r) ==
    /\ Running(r)
    /\ pc[r] = "stream_start"
    /\ pc' = [pc EXCEPT ![r] = IF CanSend(process[r]) THEN "clear" ELSE "done"]
    /\ ready' = Tail(ready)
    /\ UNCHANGED <<poolVars, available, getters, putters, putItem, proc, stream,
                   process, released>>
    /\ UNCHANGED <<cmdVars, failedWorkers>>
    /\ UNCHANGED auxVars

\* A step of generate_stream_response in which its command returns or raises
\* (o): an exception ends the generator (nothing in it catches), a result goes
\* on to the next command, and after "/stats" the final events are sent.
StreamStep(r, o) ==
    /\ Running(r)
    /\ stream[r]
    /\ pc[r] \in Commands
    /\ LET next == NextCommand(pc[r])
       IN  pc' = [pc EXCEPT ![r] =
                    IF o = "ok" /\ next # "end" /\ CanSend(process[r])
                    THEN next ELSE "done"]
    /\ ready' = Tail(ready)
    /\ UNCHANGED <<poolVars, available, getters, putters, putItem, proc, stream,
                   process, released>>
    /\ UNCHANGED <<cmdVars, failedWorkers>>
    /\ UNCHANGED auxVars

----------------------------------------------------------------------------
Next ==
    \/ \E started \in BOOLEAN : InitializeStep(started)
    \/ \E raised \in BOOLEAN : ShutdownStep(raised)
    \/ \E w \in Workers : SubprocessExit(w)
    \/ \E r \in Requests, s \in BOOLEAN : Arrive(r, s)
    \/ \E r \in Requests : AcquireStep(r)
    \/ \E r \in Requests : Cancel(r)
    \/ \E r \in Requests : CancelStep(r)
    \/ \E r \in Requests : CommandCompletes(r)
    \/ \E r \in Requests, o \in CommandOutcomes : HandlerStep(r, o)
    \/ \E r \in Requests : StreamStart(r)
    \/ \E r \in Requests, o \in CommandOutcomes : StreamStep(r, o)

Spec == Init /\ [][Next]_vars

----------------------------------------------------------------------------
\* The pool under arbitrary callers: any task may call acquire_process, and
\* release_process with any started worker, in any order and at any time
\* after initialize_pool, shutdown_pool included.  A call runs until it
\* returns or suspends; a suspended call resumes when its task, scheduled by
\* the put or get that resolved its future, reaches the head of ready.  What
\* the callers do with the workers they get is left open, so the handler's
\* variables process and released stay as they are; the queue never reads a
\* worker's subprocess state, and subprocesses here end only by stop().

Initialized == poolState \in {"ready", "stopping", "stopped", "stop_failed"}

\* The ready list after a step of PoolAcquire or PoolRelease that woke task g.
PoolScheduled(t, g) ==
    Scheduled(IF pc[t] \in {"woken", "putwoken"} THEN Tail(ready) ELSE ready, g)

\* acquire_process, from the call (pc "idle") or resumed in Queue.get (pc "woken").
PoolAcquire(t) ==
    /\ Initialized
    /\ \/ pc[t] = "idle"
       \/ pc[t] = "woken" /\ Running(t)
    /\ IF available = <<>>
       THEN /\ getters' = Append(getters, t)
            /\ pc' = [pc EXCEPT ![t] = "waiting"]
            /\ ready' = PoolScheduled(t, NoTask)
            /\ UNCHANGED <<available, putters>>
       ELSE LET p == WokenOf(putters)
            IN  /\ available' = AvailableAfterGet(available)
                /\ putters' = AfterWakeup(putters)
                /\ pc' = [Wake(pc, p, "putwoken") EXCEPT ![t] = "idle"]
                /\ ready' = PoolScheduled(t, p)
                /\ UNCHANGED getters
    /\ UNCHANGED <<poolVars, putItem, proc, stream, process, released>>
    /\ UNCHANGED <<cmdVars, failedWorkers>>
    /\ UNCHANGED auxVars

\* release_process(w), from the call (pc "idle") or resumed in Queue.put
\* (pc "putwoken", w the item being put).
PoolRelease(t, w) ==
    /\ Initialized
    /\ w \in Range(processes)
    /\ \/ pc[t] = "idle"
       \/ pc[t] = "putwoken" /\ Running(t) /\ w = putItem[t]
    /\ IF Full(available)
       THEN /\ putters' = Append(putters, t)
            /\ putItem' = [putItem EXCEPT ![t] = w]
            /\ pc' = [pc EXCEPT ![t] = "putwait"]
            /\ ready' = PoolScheduled(t, NoTask)
            /\ UNCHANGED <<available, getters>>
       ELSE LET g == WokenOf(getters)
            IN  /\ available' = AvailableAfterRelease(available, w)
                /\ getters' = AfterWakeup(getters)
                /\ pc' = [Wake(pc, g, "woken") EXCEPT ![t] = "idle"]
                /\ ready' = PoolScheduled(t, g)
                /\ putItem' = [putItem EXCEPT ![t] = NoProcess]
                /\ UNCHANGED putters
    /\ UNCHANGED <<poolVars, proc, stream, process, released>>
    /\ UNCHANGED <<cmdVars, failedWorkers>>
    /\ UNCHANGED auxVars

NextPool ==
    \/ \E started \in BOOLEAN : InitializeStep(started)
    \/ \E raised \in BOOLEAN : ShutdownStep(raised)
    \/ \E t \in Requests : PoolAcquire(t)
    \/ \E t \in Requests, w \in Workers : PoolRelease(t, w)

SpecPool == Init /\ [][NextPool]_vars

----------------------------------------------------------------------------
\* GeminiCLIProcess.execute_command and GeminiCLIProcess.stop in detail, on
\* one worker that has been started and is checked out by its caller.  The
\* call of execute_command runs as one task from one await to the next; the
\* subprocess writes to its pipes and exits on its own; stop() is called
\* from another task (shutdown_pool) at any time.  Lines are shorter than the
\* stream reader's limit.

\* Bounds of this part of the model.
MaxCommands == 2
MaxWrites   == 2
MaxStderr   == 1
MaxStops    == 2

\* The worker under test.
CmdWorker == 1

\* What the subprocess writes on a line: text, and then possibly the
\* delimiter.  The texts stand for a word, a word with surrounding blanks and
\* an empty line.
RawTexts == {"a", " a ", ""}
Lines == [delim : BOOLEAN, text : RawTexts]

\* str.strip() on the texts.
Strip(t) == IF t = " a " THEN "a" ELSE t

\* A list of lines as "\n".join(...).strip() leaves it: the lines are
\* stripped already, so what goes is the empty lines at both ends.
RECURSIVE DropLeadingEmpty(_)
DropLeadingEmpty(b) ==
    IF b = <<>> THEN <<>>
    ELSE IF Head(b) = "" THEN DropLeadingEmpty(Tail(b))
    ELSE b

RECURSIVE DropTrailingEmpty(_)
DropTrailingEmpty(b) ==
    IF b = <<>> THEN <<>>
    ELSE IF b[Len(b)] = "" THEN DropTrailingEmpty(SubSeq(b, 1, Len(b) - 1))
    ELSE b

JoinStrip(b) == DropTrailingEmpty(DropLeadingEmpty(b))

\* Worker w's stdout is at end-of-stream: nothing buffered and the
\* subprocess gone, whether or not asyncio has recorded its exit.
AtEOF(w) == stdoutPipe = <<>> /\ (proc[w] # "running" \/ died)

\* A call of execute_command is between its first await and its end.
InFlight == cmdPc \in {"reading", "stderr_wait", "communicate"}

\* Line 119: stderr.read(1024) is called without await, so stderr_chunk is a
\* coroutine object: it is truthy and has no decode.  The drain therefore
\* raises AttributeError, which is not the BlockingIOError the loop catches.
DrainRaises == TRUE

\* communicate() closes stdin although input is None on Python 3.12 and
\* later, and leaves it open before; closes is that choice of the build.
StdinAfterCommunicate(closes) == stdinClosed \/ closes

\* The except clause of line 132 for exception e: communicate() is awaited
\* with a timeout of 1 s, unless the handle has been cleared by stop() (then
\* self.process.communicate raises at once, which is caught, and e is
\* re-raised in the same step).
EnterExcept(w, e, closes) ==
    /\ exc' = e
    /\ IF proc[w] = "none"
       THEN cmdPc' = "ended" /\ stdinClosed' = stdinClosed
       ELSE cmdPc' = "communicate" /\ stdinClosed' = StdinAfterCommunicate(closes)

\* The call: RuntimeError unless the subprocess is running; otherwise the
\* command and the delimiter are written to stdin (and are lost if stdin was
\* closed or the subprocess has died) and the task waits in readline.
CallExecute(s) ==
    /\ cmdPc \in {"idle", "ended"}
    /\ nCommands < MaxCommands
    /\ nCommands' = nCommands + 1
    /\ cmdStream' = s
    /\ stdout_buffer' = <<>>
    /\ stderr_buffer' = <<>>
    /\ yielded' = <<>>
    /\ emitted' = <<>>
    /\ errEmitted' = <<>>
    /\ stoppedDuring' = FALSE
    /\ eof' = FALSE
    /\ IF CanSend(CmdWorker)
       THEN /\ cmdPc' = "reading"
            /\ exc' = "none"
            /\ canEcho' = (canEcho \/ (~stdinClosed /\ ~died))
       ELSE /\ cmdPc' = "ended"
            /\ exc' = "RuntimeError"
            /\ canEcho' = canEcho
    /\ UNCHANGED <<stdoutPipe, stderrPipe, stdinClosed, stopPc, nWrites, nStops>>
    /\ UNCHANGED <<poolVars, handlerVars, proc>>
    /\ UNCHANGED died
    /\ UNCHANGED auxVars

\* A text is the list of its lines; the empty string has none.
Text(t) == IF t = "" THEN <<>> ELSE <<t>>

\* How the loop ends on break (lines 76 and 92), with buffer buf and the
\* tuples yl yielded so far: a streaming call just ends; any other call
\* yields its one result, (final_stdout, final_stderr).
YieldedAtEnd(buf, yl) ==
    IF cmdStream THEN yl
    ELSE Append(yl, <<JoinStrip(buf), JoinStrip(stderr_buffer)>>)

\* readline returns: end-of-stream, a line with the delimiter, or another
\* line.  End-of-stream and the delimiter line end the loop, and the call
\* ends without an exception; any other line is yielded or buffered, and then
\* comes the drain of stderr.
ReadlineReturns(closes) ==
    /\ cmdPc = "reading"
    /\ stdoutPipe # <<>> \/ AtEOF(CmdWorker)
    /\ eof' = AtEOF(CmdWorker)
    /\ IF AtEOF(CmdWorker)
       THEN /\ cmdPc' = "ended"
            /\ yielded' = YieldedAtEnd(stdout_buffer, yielded)
            /\ UNCHANGED <<stdout_buffer, stdoutPipe, exc, stdinClosed>>
       ELSE LET line == Head(stdoutPipe)
                decoded_line == Strip(line.text)
                buf == IF cmdStream THEN stdout_buffer
                       ELSE stdout_buffer \o
                            (IF line.delim THEN Text(decoded_line) ELSE <<decoded_line>>)
                yl  == IF ~cmdStream \/ (line.delim /\ decoded_line = "") THEN yielded
                       ELSE Append(yielded, <<Text(decoded_line), <<>>>>)
            IN  /\ stdoutPipe' = Tail(stdoutPipe)
                /\ stdout_buffer' = buf
                /\ IF line.delim
                   THEN /\ cmdPc' = "ended"
                        /\ yielded' = YieldedAtEnd(buf, yl)
                        /\ UNCHANGED <<exc, stdinClosed>>
                   ELSE IF DrainRaises \/ proc[CmdWorker] = "none"
                   THEN /\ yielded' = yl
                        /\ EnterExcept(CmdWorker, "AttributeError", closes)
                   ELSE /\ yielded' = yl
                        /\ UNCHANGED <<cmdPc, exc, stdinClosed>>
    /\ UNCHANGED <<cmdStream, stderr_buffer, stderrPipe, canEcho, emitted,
                   errEmitted, stoppedDuring, stopPc, nCommands, nWrites, nStops>>
    /\ UNCHANGED <<poolVars, handlerVars, proc>>
    /\ UNCHANGED died
    /\ UNCHANGED auxVars

\* wait_for(readline, timeout) times out: nothing to read and the stream
\* still open.  The except clause of line 100 then awaits stderr.read().
ReadTimesOut ==
    /\ cmdPc = "reading"
    /\ stdoutPipe = <<>>
    /\ ~AtEOF(CmdWorker)
    /\ cmdPc' = "stderr_wait"
    /\ UNCHANGED <<cmdStream, stdout_buffer, stderr_buffer, yielded, exc,
                   stdoutPipe, stderrPipe, stdinClosed, canEcho, emitted,
                   errEmitted, stoppedDuring, stopPc, nCommands, nWrites, nStops>>
    /\ UNCHANGED <<poolVars, handlerVars, proc>>
    /\ UNCHANGED eof
    /\ UNCHANGED died
    /\ UNCHANGED auxVars

\* stderr.read() of line 103 ends: at end-of-stream with all of stderr, which
\* is buffered if not empty, or by its timeout of 1 s, which drops what it
\* had read.  TimeoutError is raised either way (line 110), and caught by the
\* except clause of line 132.
StderrReadEnds(closes) ==
    /\ cmdPc = "stderr_wait"
    /\ stderr_buffer' =
           IF (proc[CmdWorker] # "running" \/ died) /\ stderrPipe # <<>>
           THEN stderr_buffer \o stderrPipe ELSE stderr_buffer
    /\ stderrPipe' = <<>>
    /\ EnterExcept(CmdWorker, "TimeoutError", closes)
    /\ UNCHANGED <<cmdStream, stdout_buffer, yielded, stdoutPipe, canEcho,
                   emitted, errEmitted, stoppedDuring, stopPc, nCommands,
                   nWrites, nStops>>
    /\ UNCHANGED <<poolVars, handlerVars, proc>>
    /\ UNCHANGED eof
    /\ UNCHANGED died
    /\ UNCHANGED auxVars

\* The delimiter token as it appears in text.
Delimiter == "<delimiter>"

\* A line of the pipe as the text the subprocess wrote.
Render(l) == IF l.delim THEN l.text \o Delimiter ELSE l.text

\* str.lstrip() and str.rstrip() on the texts and what they leave.
LStrip(t) == IF t = " a " THEN "a " ELSE t
RStrip(t) == IF t = " a " THEN " a" ELSE IF t = "a " THEN "a" ELSE t

\* bytes.decode().strip() on the lines ls read in one piece: empty lines at
\* both ends go, and the blanks before the first and after the last line.
StripText(ls) ==
    LET d == JoinStrip(ls)
    IN  [i \in 1..Len(d) |->
            LET l == IF i = 1 THEN LStrip(d[i]) ELSE d[i]
            IN  IF i = Len(d) THEN RStrip(l) ELSE l]

\* What communicate() returned as stdout, decoded and stripped.
CommStdout(pipe) == StripText([i \in 1..Len(pipe) |-> Render(pipe[i])])

\* communicate() of line 137 ends: it returns when both pipes hit
\* end-of-stream and the subprocess has exited, and what it read is yielded
\* or buffered; or its timeout of 1 s cancels it, which drops what it had
\* read.  Then the exception is re-raised (line 159).
CommunicateEnds ==
    /\ cmdPc = "communicate"
    /\ cmdPc' = "ended"
    /\ LET returns == proc[CmdWorker] # "running"
           out == IF returns THEN CommStdout(stdoutPipe) ELSE <<>>
           err == IF returns THEN stderrPipe ELSE <<>>
       IN  /\ stdout_buffer' = IF ~cmdStream /\ out # <<>>
                               THEN stdout_buffer \o out ELSE stdout_buffer
           /\ stderr_buffer' = IF ~cmdStream /\ err # <<>>
                               THEN stderr_buffer \o err ELSE stderr_buffer
           /\ yielded' = IF ~cmdStream THEN yielded
                         ELSE yielded
                              \o (IF out # <<>> THEN << <<out, <<>>>> >> ELSE <<>>)
                              \o (IF err # <<>> THEN << <<<<>>, err>> >> ELSE <<>>)
    /\ stdoutPipe' = <<>>
    /\ stderrPipe' = <<>>
    /\ UNCHANGED <<cmdStream, exc, stdinClosed, canEcho, emitted, errEmitted,
                   stoppedDuring, stopPc, nCommands, nWrites, nStops, eof>>
    /\ UNCHANGED <<poolVars, handlerVars, proc>>
    /\ UNCHANGED eof
    /\ UNCHANGED died
    /\ UNCHANGED auxVars

\* The subprocess writes a line to stdout.  It can write the delimiter only
\* if it has received one on stdin.
SubprocessWrites(l) ==
    /\ proc[CmdWorker] = "running"
    /\ ~died
    /\ nWrites < MaxWrites
    /\ l.delim => canEcho
    /\ nWrites' = nWrites + 1
    /\ stdoutPipe' = Append(stdoutPipe, l)
    /\ canEcho' = (canEcho /\ ~l.delim)
    /\ emitted' = IF InFlight THEN Append(emitted, l) ELSE emitted
    /\ UNCHANGED <<cmdPc, cmdStream, stdout_buffer, stderr_buffer, yielded, exc,
                   stderrPipe, stdinClosed, errEmitted, stoppedDuring, stopPc,
                   nCommands, nStops>>
    /\ UNCHANGED <<poolVars, handlerVars, proc>>
    /\ UNCHANGED eof
    /\ UNCHANGED died
    /\ UNCHANGED auxVars

\* The subprocess writes to stderr.
SubprocessWritesStderr ==
    /\ proc[CmdWorker] = "running"
    /\ ~died
    /\ Len(stderrPipe) + Len(errEmitted) < MaxStderr
    /\ stderrPipe' = Append(stderrPipe, "e")
    /\ errEmitted' = IF InFlight THEN Append(errEmitted, "e") ELSE errEmitted
    /\ UNCHANGED <<cmdPc, cmdStream, stdout_buffer, stderr_buffer, yielded, exc,
                   stdoutPipe, stdinClosed, canEcho, emitted, stoppedDuring,
                   stopPc, nCommands, nWrites, nStops>>
    /\ UNCHANGED <<poolVars, handlerVars, proc>>
    /\ UNCHANGED eof
    /\ UNCHANGED died
    /\ UNCHANGED auxVars

\* The subprocess exits on its own.  Until the event loop has run the child
\* watcher's callback (SubprocessExit), process.returncode is None and the
\* worker counts as running.
SubprocessDies ==
    /\ proc[CmdWorker] = "running"
    /\ ~died
    /\ died' = TRUE
    /\ UNCHANGED <<cmdPc, cmdStream, stdout_buffer, stderr_buffer, yielded, exc,
                   stdoutPipe, stderrPipe, stdinClosed, canEcho, emitted,
                   errEmitted, stoppedDuring, stopPc, nCommands, nWrites,
                   nStops, eof>>
    /\ UNCHANGED <<poolVars, handlerVars, proc>>
    /\ UNCHANGED auxVars

\* stop() is called: nothing happens if the handle is unset; otherwise
\* terminate() is called, which raises ProcessLookupError if the subprocess
\* has exited and its transport is closed (raised), and stop() waits for the
\* subprocess to exit.  The subprocess may ignore the signal (ignores).
StopBegin(raised, ignores) ==
    /\ stopPc \in {"idle", "returned", "raised"}
    /\ nStops < MaxStops
    /\ nStops' = nStops + 1
    /\ raised => proc[CmdWorker] = "exited"
    /\ IF proc[CmdWorker] = "none"
       THEN /\ ~raised /\ ~ignores
            /\ stopPc' = "returned"
            /\ UNCHANGED <<proc, stoppedDuring>>
       ELSE IF raised
       THEN /\ ~ignores
            /\ stopPc' = "raised"
            /\ UNCHANGED <<proc, stoppedDuring>>
       ELSE /\ ignores => proc[CmdWorker] = "running" /\ ~died
            /\ stopPc' = "waiting"
            /\ proc' = IF ignores THEN proc ELSE [proc EXCEPT ![CmdWorker] = "exited"]
            /\ stoppedDuring' = (stoppedDuring \/ (InFlight /\ proc[CmdWorker] = "running" /\ ~died))
    /\ UNCHANGED <<cmdPc, cmdStream, stdout_buffer, stderr_buffer, yielded, exc,
                   stdoutPipe, stderrPipe, stdinClosed, canEcho, emitted,
                   errEmitted, nCommands, nWrites>>
    /\ UNCHANGED <<poolVars, handlerVars>>
    /\ UNCHANGED eof
    /\ UNCHANGED died
    /\ UNCHANGED auxVars

\* wait() returns, where needed after the 5 s and kill(); the handle is cleared.
StopEnd ==
    /\ stopPc = "waiting"
    /\ stopPc' = "returned"
    /\ proc' = ProcAfterStop(CmdWorker)
    /\ stoppedDuring' = (stoppedDuring \/ (InFlight /\ proc[CmdWorker] = "running" /\ ~died))
    /\ UNCHANGED <<cmdPc, cmdStream, stdout_buffer, stderr_buffer, yielded, exc,
                   stdoutPipe, stderrPipe, stdinClosed, canEcho, emitted,
                   errEmitted, nCommands, nWrites, nStops>>
    /\ UNCHANGED <<poolVars, handlerVars>>
    /\ UNCHANGED eof
    /\ UNCHANGED died
    /\ UNCHANGED auxVars

\* One worker, started by initialize_pool and acquired by the caller.
InitCmd ==
    /\ CmdInit
    /\ pool_size = 1
    /\ poolState = "ready"
    /\ initIndex = 1
    /\ stopIndex = 1
    /\ processes = <<CmdWorker>>
    /\ startFailed = {}
    /\ available = <<>>
    /\ getters = <<>>
    /\ putters = <<>>
    /\ putItem = [r \in Requests |-> NoProcess]
    /\ proc = [w \in Workers |-> IF w = CmdWorker THEN "running" ELSE "none"]
    /\ ready = <<>>
    /\ pc = [r \in Requests |-> "idle"]
    /\ stream = [r \in Requests |-> FALSE]
    /\ process = [r \in Requests |-> NoProcess]
    /\ released = [r \in Requests |-> <<>>]
    /\ failedWorkers = {}
    /\ AuxInit

NextCmd ==
    \/ \E s \in BOOLEAN : CallExecute(s)
    \/ \E closes \in BOOLEAN : ReadlineReturns(closes)
    \/ ReadTimesOut
    \/ \E closes \in BOOLEAN : StderrReadEnds(closes)
    \/ CommunicateEnds
    \/ \E l \in Lines : SubprocessWrites(l)
    \/ SubprocessWritesStderr
    \/ SubprocessDies
    \/ SubprocessExit(CmdWorker)
    \/ \E raised, ignores \in BOOLEAN : StopBegin(raised, ignores)
    \/ StopEnd

SpecCmd == InitCmd /\ [][NextCmd]_vars

----------------------------------------------------------------------------
\* The service under an unending stream of requests: when a request has
\* ended, a new one may take its place, so the numbers no longer tell the
\* order of arrival.  The requests do not stream, no task is cancelled, and
\* the subprocesses keep running.

\* A new request takes the place of request r, which has ended.
Recycle(r) ==
    /\ pc[r] = "done"
    /\ pc' = [pc EXCEPT ![r] = "idle"]
    /\ process' = [process EXCEPT ![r] = NoProcess]
    /\ released' = [released EXCEPT ![r] = <<>>]
    /\ UNCHANGED <<poolVars, available, getters, putters, putItem, proc, ready,
                   stream, failedWorkers, cmdVars>>
    /\ UNCHANGED auxVars

NextLive ==
    \/ \E started \in BOOLEAN : InitializeStep(started)
    \/ \E r \in Requests : Arrive(r, FALSE)
    \/ \E r \in Requests : AcquireStep(r)
    \/ \E r \in Requests : CommandCompletes(r)
    \/ \E r \in Requests, o \in CommandOutcomes : HandlerStep(r, o)
    \/ \E r \in Requests : Recycle(r)

\* The event loop runs every task it has scheduled, and every read of
\* execute_command ends, by data or by its timeout; so every request that
\* holds a worker releases it.  Nothing obliges a request to arrive.
Fairness ==
    \A r \in Requests :
        /\ WF_vars(AcquireStep(r))
        /\ WF_vars(CommandCompletes(r))
        /\ WF_vars(\E o \in CommandOutcomes : HandlerStep(r, o))

SpecLive == Init /\ [][NextLive]_vars /\ Fairness

----------------------------------------------------------------------------
\* Properties.

\* Request r has left chat_completions (its streaming generator may still run).
HandlerExited(r) ==
    \/ pc[r] = "done"
    \/ stream[r] /\ pc[r] \in Commands \cup {"stream_start"}

\* Request r holds a worker: acquire_process has returned it and r has not
\* passed it to release_process.
Holds(r) == process[r] # NoProcess /\ released[r] = <<>>

\* Request r is using a worker: from acquire_process returning it until r has
\* finished its last command on it.
Uses(r) == process[r] # NoProcess /\ pc[r] # "done"

\* No request is in progress.
Quiescent == \A r \in Requests : pc[r] \in {"idle", "done"}

NoDuplicates(q) == \A i, j \in 1..Len(q) : q[i] = q[j] => i = j

\* C1: a worker is used by at most one request at a time, from the moment
\* acquire_process returns it until that request has finished its last
\* command on it.
C1_OneRequestPerWorker ==
    \A r1, r2 \in Requests :
        r1 # r2 /\ Uses(r1) /\ Uses(r2) => process[r1] # process[r2]

\* C2: no two callers hold the same worker at the same time, a worker being
\* held from the return of acquire_process until the holder's
\* release_process, and a held worker is not in the available queue.
C2_NoSharedHolder ==
    \A r1 \in Requests :
        Holds(r1) =>
            /\ process[r1] \notin Range(available)
            /\ \A r2 \in Requests : r2 # r1 /\ Holds(r2) => process[r2] # process[r1]

\* C2 witness: a worker released by one request is held by another while a
\* third request holds or waits.
C2_Witness ==
    \E r1, r2 \in Requests :
        /\ r1 # r2
        /\ Holds(r1)
        /\ released[r2] = <<process[r1]>>
        /\ \E r3 \in Requests \ {r1, r2} : Holds(r3) \/ pc[r3] = "waiting"

\* C3: a request that has left chat_completions has released exactly the
\* worker it acquired, once, if acquire_process returned one, and has
\* released nothing otherwise; no request releases before it leaves the
\* handler, or more than once.
C3_ReleasedExactlyOnce ==
    \A r \in Requests :
        /\ HandlerExited(r) =>
               released[r] = IF process[r] # NoProcess THEN <<process[r]>> ELSE <<>>
        /\ ~HandlerExited(r) => released[r] = <<>>

\* C3 witness: one request ended by a cancelled acquire without releasing,
\* another ended after its commands with its worker released, a third left
\* the handler with a streaming response.
C3_Witness ==
    \E r1, r2, r3 \in Requests :
        /\ pc[r1] = "done" /\ process[r1] = NoProcess /\ released[r1] = <<>>
        /\ pc[r2] = "done" /\ ~stream[r2] /\ released[r2] = <<process[r2]>>
        /\ stream[r3] /\ HandlerExited(r3) /\ released[r3] = <<process[r3]>>

\* C4: the release of the worker is the request's final step: once a request
\* has released its worker it issues no further command on it.
C4_ReleaseIsLastStep ==
    \A r \in Requests : released[r] # <<>> => pc[r] = "done"

\* C5: the available queue never holds more than pool_size workers.
C5_AvailableBounded == Len(available) >= 0 /\ Len(available) <= pool_size

\* C5 witness: with the queue full, a caller is suspended in release_process.
C5_Witness ==
    /\ Len(available) = pool_size
    /\ pool_size = MaxPoolSize
    /\ \E t \in Requests : pc[t] = "putwait"

\* Worker w is idle: its subprocess is running, no command is in flight on
\* it and no caller holds it.
Idle(w) ==
    /\ proc[w] = "running"
    /\ \A r \in Requests :
           process[r] = w => ~Holds(r) /\ pc[r] \notin Commands \cup {"stream_start"}

\* C6: a worker is in the available queue if and only if it is idle.
C6_AvailableIffIdle ==
    \A w \in Range(processes) : w \in Range(available) <=> Idle(w)

\* C7: no worker occurs twice in the available queue, and whenever no request
\* is in progress the queue holds every started worker, each once.
C7_EachWorkerOnce ==
    /\ NoDuplicates(available)
    /\ Initialized /\ Quiescent =>
           /\ Range(available) = Range(processes)
           /\ Len(available) = Len(processes)

\* C7 witness: every request has ended, one of them after using a worker that
\* another one used as well, and both workers are back.
C7_Witness ==
    /\ \A r \in Requests : pc[r] = "done"
    /\ \E r1, r2 \in Requests :
           r1 # r2 /\ process[r1] # NoProcess /\ process[r1] = process[r2]
    /\ Len(available) = MaxPoolSize

\* C8: when no launch fails, initialize_pool leaves exactly pool_size workers
\* owned by the pool and exactly those in the available queue.
C8_InitializeFillsPool ==
    poolState = "ready" /\ startFailed = {} /\ (\A r \in Requests : pc[r] = "idle") =>
        /\ Len(processes) = pool_size
        /\ Range(processes) = 1..pool_size
        /\ available = processes

C8_Witness ==
    /\ poolState = "ready"
    /\ startFailed = {}
    /\ pool_size = MaxPoolSize
    /\ \A r \in Requests : pc[r] = "idle"

\* C9: initialize_pool fails exactly when no worker started; otherwise the
\* pool operates with the started workers, all of them in the available queue
\* when initialize_pool returns, and a worker that failed to start is never
\* queued or handed out.
C9_FailsOnlyWithNoWorker ==
    /\ poolState = "failed" <=> (initIndex = pool_size /\ processes = <<>>)
    /\ Initialized =>
           /\ Range(processes) = (1..pool_size) \ startFailed
           /\ Len(processes) = pool_size - Cardinality(startFailed)
           /\ Len(processes) >= 1
    /\ poolState = "ready" /\ (\A r \in Requests : pc[r] = "idle") =>
           available = processes
    /\ Range(available) \cap startFailed = {}
    /\ \A r \in Requests : process[r] \notin startFailed

\* C9 witness: one launch of two failed, and a request is served by the
\* worker that started.
C9_Witness ==
    /\ poolState = "ready"
    /\ Cardinality(startFailed) = 1
    /\ Len(processes) = 1
    /\ \E r \in Requests : pc[r] = "prompt" /\ process[r] = processes[1]

\* Request r has called acquire_process; requests call it in the order of
\* their numbers.
Called(r) == pc[r] \notin {"idle", "start"}

\* Request r gave up in acquire_process (its task was cancelled).
GaveUp(r) ==
    \/ pc[r] \in {"cancelled", "woken_cancelled"}
    \/ pc[r] = "done" /\ process[r] = NoProcess

\* C10: acquire_process is first-requested, first-served: a request that
\* called acquire_process before another one is given a worker no later.
C10_FirstRequestedFirstServed ==
    \A a, b \in Requests :
        a < b /\ Called(a) /\ ~GaveUp(a) /\ process[b] # NoProcess
            => process[a] # NoProcess

----------------------------------------------------------------------------
\* Properties of execute_command and stop(), under SpecCmd.

\* The call of execute_command is the first on the worker, and everything
\* the subprocess has written to stdout it wrote during the call.
FirstCallOnly == nCommands = 1 /\ nWrites = Len(emitted)

\* The subprocess wrote a line with the delimiter during the call.
DelimiterEmitted == \E i \in 1..Len(emitted) : emitted[i].delim

\* What the subprocess wrote during the call is lines without the delimiter
\* and then one line with it.
DelimiterLast ==
    /\ emitted # <<>>
    /\ \A i \in 1..Len(emitted) : emitted[i].delim <=> i = Len(emitted)

\* The output the call should return for what the subprocess wrote: the
\* lines before the delimiter line and what precedes the token on it, each
\* stripped, joined and stripped as execute_command does.
ExpectedOutput ==
    JoinStrip([i \in 1..Len(emitted) |-> Strip(emitted[i].text)])

\* C12: when the subprocess writes lines L1..Ln and then a line with the
\* delimiter, and no read times out, the call ends without an exception; a
\* call that does not stream returns exactly L1..Ln and what precedes the
\* token, and no yielded text contains the delimiter.
C12_OutputUpToDelimiter ==
    cmdPc = "ended" /\ FirstCallOnly /\ DelimiterLast /\ exc # "TimeoutError"
        /\ nStops = 0 /\ proc[CmdWorker] = "running" /\ ~died =>
            /\ exc = "none"
            /\ ~cmdStream => yielded = << <<ExpectedOutput, <<>>>> >>

\* C13: a call in which readline hit end-of-stream before a delimiter line
\* ends with an exception, never with a result.
C13_EofIsAnError ==
    cmdPc = "ended" /\ eof => exc # "none"

\* C14: a call on a running subprocess that writes no delimiter, whatever
\* else it writes, ends by raising the timeout error.
C14_NoDelimiterTimesOut ==
    cmdPc = "ended" /\ FirstCallOnly /\ ~DelimiterEmitted /\ nStops = 0
        /\ proc[CmdWorker] = "running" /\ ~died =>
            exc = "TimeoutError"

\* C15: a call that ends with the timeout error leaves the subprocess's
\* stdin open (and so able to take a later command).
C15_TimeoutLeavesStdinOpen ==
    cmdPc = "ended" /\ nCommands = 1 /\ exc = "TimeoutError" => ~stdinClosed

\* C16: the drain of stderr never ends the call with an exception, and what
\* the subprocess wrote to stderr during a call that returns a result is in
\* the result's error text.
C16_DrainNeverFails ==
    cmdPc = "ended" /\ nStops = 0 =>
        /\ exc # "AttributeError"
        /\ exc = "none" /\ ~cmdStream /\ FirstCallOnly => yielded[1][2] = errEmitted

\* C17: whenever a call of stop() has ended, the worker's handle is cleared.
C17_StopClearsHandle ==
    stopPc \in {"returned", "raised"} => proc[CmdWorker] = "none"

\* C19: a call during which stop() terminated the subprocess ends with an
\* exception, not with a result.
C19_StoppedCommandFails ==
    cmdPc = "ended" /\ stoppedDuring => exc # "none"

----------------------------------------------------------------------------
\* Properties of shutdown_pool and of the reuse of workers, under Spec.

\* shutdown_pool has ended: it returned or an exception left it.
ShutdownEnded == poolState \in {"stopped", "stop_failed"}

\* C18: once shutdown_pool has ended, every worker the pool started is
\* stopped, in the queue or checked out, its subprocess exited or not.
C18_ShutdownStopsAll ==
    ShutdownEnded => \A w \in Range(processes) : proc[w] = "none"

\* C20: acquire_process never hands out a worker whose subprocess exited
\* during a command, once no command is in flight on it any more.
C20_FailedWorkerNotReused ==
    [][\A r \in Requests :
          process'[r] # process[r] /\ ~InUse(process'[r])
              => process'[r] \notin failedWorkers]_vars

----------------------------------------------------------------------------
\* Properties of waiting in acquire_process, under SpecLive.

\* C11: with a pool of one worker no two requests hold it at once, so a
\* second acquire_process returns only after the first request's release;
\* and every request blocked in acquire_process is eventually given a worker.
C11_BlockedEventuallyServed ==
    /\ [](pool_size = 1 =>
             \A r1, r2 \in Requests : Holds(r1) /\ Holds(r2) => r1 = r2)
    /\ \A r \in Requests : (pc[r] = "waiting") ~> (process[r] # NoProcess)

----------------------------------------------------------------------------
\* Properties of the request's commands, under Spec.

\* C21: a failure of "/clear" is not fatal to the request: whenever a request
\* whose worker's subprocess is running leaves "/clear", whatever the outcome
\* of the command, it goes on to the prompt command on the same worker.
C21_ClearFailureNotFatal ==
    [][\A r \in Requests :
          pc[r] = "clear" /\ pc'[r] # "clear" /\ IsRunning(process[r])
              => pc'[r] = "prompt" /\ process'[r] = process[r]]_vars

----------------------------------------------------------------------------
\* The response to one request, in the pooled application (main.py) and in
\* the spawn-per-request one (main_simple.py).  The pooled request's worker
\* is given (Spec follows the pool); a command is one step with an outcome,
\* and what is followed is what the client receives: the status, the usage
\* fields and the server-sent events.  Debug dumps are off (the default of
\* DEBUG_DUMP_ENABLED), so dump_debug_info returns at once.

\* At most this many events are sent for the prompt before it ends.
MaxChunks == 2

HTTP_200_OK == 200
HTTP_400_BAD_REQUEST == 400
HTTP_500_INTERNAL_SERVER_ERROR == 500
HTTP_503_SERVICE_UNAVAILABLE == 503
HTTP_504_GATEWAY_TIMEOUT == 504

\* The user messages of a request, joined: the length of the text and
\* whether it is blank (full_prompt.strip() is empty).
Prompts == {[len |-> 0, blank |-> TRUE], [len |-> 2, blank |-> TRUE],
            [len |-> 9, blank |-> FALSE]}

\* Lengths of the text execute_prompt returns.
ResponseLens == {0, 5}

\* SimplifiedGeminiCLI.estimate_tokens: len(text) // 4.
EstimateTokens(n) == n \div 4

\* Texts the "/stats" command can print before the delimiter.
StatsTexts == {"",
               "tokens used: 7",
               "{}",
               "{\"total_tokens\": 7}",
               "{\"prompt_tokens\": 3, \"completion_tokens\": 4, \"total_tokens\": 7}",
               "{\"total_tokens\": null}",
               "7",
               "null",
               "[]"}

\* json.loads on these texts: JSONDecodeError, or the value decoded (a dict,
\* an int, None, a list).  The items of a dict are the values of its keys
\* prompt_tokens, completion_tokens and total_tokens: <<"int", n>>,
\* <<"None", 0>> for null, <<"absent", 0>> where the key is missing.
JsonLoads(text) ==
    CASE text = "{}" ->
            [type |-> "dict", items |-> <<<<"absent", 0>>, <<"absent", 0>>, <<"absent", 0>>>>]
      [] text = "{\"total_tokens\": 7}" ->
            [type |-> "dict", items |-> <<<<"absent", 0>>, <<"absent", 0>>, <<"int", 7>>>>]
      [] text = "{\"prompt_tokens\": 3, \"completion_tokens\": 4, \"total_tokens\": 7}" ->
            [type |-> "dict", items |-> <<<<"int", 3>>, <<"int", 4>>, <<"int", 7>>>>]
      [] text = "{\"total_tokens\": null}" ->
            [type |-> "dict", items |-> <<<<"absent", 0>>, <<"absent", 0>>, <<"None", 0>>>>]
      [] text = "7"    -> [type |-> "int", items |-> <<>>]
      [] text = "null" -> [type |-> "NoneType", items |-> <<>>]
      [] text = "[]"   -> [type |-> "list", items |-> <<>>]
      [] OTHER         -> [type |-> "JSONDecodeError", items |-> <<>>]

\* The parse of the stats output and the construction of Usage: the three
\* fields default to 0; json.loads raising JSONDecodeError, the one
\* exception caught, leaves them so; .get on a value that is not a dict
\* raises AttributeError; .get(key, 0) gives 0 for a missing key; Usage
\* rejects a field that is not an integer.  The exception that leaves the
\* block ("none" if none does) and the usage fields.
ParseStats(text) ==
    LET j    == JsonLoads(text)
        got  == [i \in 1..3 |-> IF j.items[i][1] = "absent" THEN <<"int", 0>>
                                ELSE j.items[i]]
        e    == IF j.type = "JSONDecodeError" THEN "JSONDecodeError"
                ELSE IF j.type # "dict" THEN "AttributeError"
                ELSE IF \E i \in 1..3 : got[i][1] # "int" THEN "ValidationError"
                ELSE "none"
    IN  IF e = "none" THEN [exc |-> "none", usage |-> [i \in 1..3 |-> got[i][2]]]
        ELSE IF e = "JSONDecodeError" THEN [exc |-> "none", usage |-> <<0, 0, 0>>]
        ELSE [exc |-> e, usage |-> <<>>]

\* Error texts of a failed execute_prompt (the CLI's stderr, or the error of
\* the spawn), and whether "not found" is in the lower-cased text.
ErrorTexts == {"Gemini CLI failed with code 1: quota exceeded",
               "Gemini CLI failed with code 1: Model Not Found",
               "[Errno 13] Permission denied"}
ContainsNotFound(text) == text = "Gemini CLI failed with code 1: Model Not Found"

\* The status main_simple's except clause gives an exception.
SimpleStatus(o, text) ==
    IF o = "timeout" THEN HTTP_504_GATEWAY_TIMEOUT
    ELSE IF ContainsNotFound(text) THEN HTTP_503_SERVICE_UNAVAILABLE
    ELSE HTTP_500_INTERNAL_SERVER_ERROR

\* The status main's except clauses give an exception: TimeoutError 504,
\* RuntimeError and every other exception 500.
PooledStatus(o) ==
    IF o = "timeout" THEN HTTP_504_GATEWAY_TIMEOUT
    ELSE HTTP_500_INTERNAL_SERVER_ERROR

\* A request arrives at application e, with stream flag s and prompt p, and
\* its handler runs up to its first command.  main_simple checks the prompt
\* inside its try block: the HTTPException(400) it raises for a blank prompt
\* is caught by its own "except Exception" and turned into 500.  A streaming
\* request gets its StreamingResponse, and so its status 200, here.
Request(e, s, p) ==
    /\ hpc = "idle"
    /\ endpoint' = e
    /\ reqStream' = s
    /\ full_prompt' = p
    /\ IF e = "simple" /\ p.blank
       THEN /\ hpc' = "done"
            /\ status_code' = SimpleStatus("error", "No user message found in request")
       ELSE /\ hpc' = IF e = "pooled" THEN "clear" ELSE "prompt"
            /\ status_code' = IF s THEN HTTP_200_OK ELSE NoStatus
    /\ UNCHANGED <<events, usage, timedOut, cmdFailed, statsOut>>
    /\ UNCHANGED <<poolVars, handlerVars, proc, cmdVars, sanVars, chunkVars,
                 shotVars>>

\* main.chat_completions, not streaming: the command it waits on returns or
\* raises (o); text is what "/stats" printed.  An exception gets its status
\* from the except clauses; a result goes on to the next command; after
\* "/stats" the output is parsed and the response built, and an exception of
\* the parse is one more exception in the try block.
PooledCommand(o, text) ==
    /\ endpoint = "pooled" /\ ~reqStream
    /\ hpc \in Commands
    /\ timedOut' = (timedOut \/ o = "timeout")
    /\ cmdFailed' = (cmdFailed \/ o = "error")
    /\ IF o # "ok"
       THEN /\ hpc' = "done"
            /\ status_code' = PooledStatus(o)
            /\ UNCHANGED <<usage, statsOut>>
       ELSE IF hpc # "stats"
       THEN /\ hpc' = NextCommand(hpc)
            /\ UNCHANGED <<status_code, usage, statsOut>>
       ELSE LET parsed == ParseStats(text)
            IN  /\ hpc' = "done"
                /\ statsOut' = text
                /\ usage' = parsed.usage
                /\ status_code' = IF parsed.exc = "none" THEN HTTP_200_OK
                                  ELSE PooledStatus("error")
    /\ UNCHANGED <<endpoint, reqStream, events, full_prompt>>
    /\ UNCHANGED <<poolVars, handlerVars, proc, cmdVars, sanVars, chunkVars,
                 shotVars>>

\* main.generate_stream_response in its loop over the prompt command: a
\* tuple with stdout text gives a "content" event, one with stderr text an
\* "error" event.
PooledStreamYield(k) ==
    /\ endpoint = "pooled" /\ reqStream
    /\ hpc = "prompt"
    /\ Len(events) < MaxChunks
    /\ events' = Append(events, k)
    /\ UNCHANGED <<endpoint, reqStream, hpc, status_code, usage, timedOut,
                   cmdFailed, statsOut, full_prompt>>
    /\ UNCHANGED <<poolVars, handlerVars, proc, cmdVars, sanVars, chunkVars,
                 shotVars>>

\* main.generate_stream_response: the command it waits on returns or raises
\* (o).  Nothing in the generator catches: an exception, that of the parse
\* included, ends the stream where it is.  (execute_command yields stderr
\* text, and more than one tuple, only on paths that raise.)
PooledStreamCommand(o, text) ==
    /\ endpoint = "pooled" /\ reqStream
    /\ hpc \in Commands
    /\ o = "ok" /\ hpc = "prompt" => "error" \notin Range(events) /\ Len(events) <= 1
    /\ timedOut' = (timedOut \/ o = "timeout")
    /\ cmdFailed' = (cmdFailed \/ o = "error")
    /\ IF o # "ok"
       THEN /\ hpc' = "done"
            /\ UNCHANGED <<events, usage, statsOut>>
       ELSE IF hpc # "stats"
       THEN /\ hpc' = NextCommand(hpc)
            /\ UNCHANGED <<events, usage, statsOut>>
       ELSE LET parsed == ParseStats(text)
            IN  /\ hpc' = "done"
                /\ statsOut' = text
                /\ usage' = parsed.usage
                /\ events' = IF parsed.exc = "none" THEN events \o <<"stop", "[DONE]">>
                             ELSE events
    /\ UNCHANGED <<endpoint, reqStream, status_code, full_prompt>>
    /\ UNCHANGED <<poolVars, handlerVars, proc, cmdVars, sanVars, chunkVars,
                 shotVars>>

\* main_simple.chat_completions, not streaming: execute_prompt returns a
\* text of length n or raises (o, with error text).
SimpleExecute(o, n, text) ==
    /\ endpoint = "simple" /\ ~reqStream
    /\ hpc = "prompt"
    /\ hpc' = "done"
    /\ timedOut' = (timedOut \/ o = "timeout")
    /\ cmdFailed' = (cmdFailed \/ o = "error")
    /\ IF o = "ok"
       THEN /\ status_code' = HTTP_200_OK
            /\ usage' = <<EstimateTokens(full_prompt.len), EstimateTokens(n),
                          EstimateTokens(full_prompt.len) + EstimateTokens(n)>>
       ELSE /\ status_code' = SimpleStatus(o, text)
            /\ UNCHANGED usage
    /\ UNCHANGED <<endpoint, reqStream, events, statsOut, full_prompt>>
    /\ UNCHANGED <<poolVars, handlerVars, proc, cmdVars, sanVars, chunkVars,
                 shotVars>>

\* main_simple.generate_stream_response in its loop: execute_prompt_stream
\* yields a fragment (never blank), sent as a "content" event.
SimpleStreamYield ==
    /\ endpoint = "simple" /\ reqStream
    /\ hpc = "prompt"
    /\ Len(events) < MaxChunks
    /\ events' = Append(events, "content")
    /\ UNCHANGED <<endpoint, reqStream, hpc, status_code, usage, timedOut,
                   cmdFailed, statsOut, full_prompt>>
    /\ UNCHANGED <<poolVars, handlerVars, proc, cmdVars, sanVars, chunkVars,
                 shotVars>>

\* main_simple.generate_stream_response: execute_prompt_stream ends (o).
\* After the loop the terminal event and the sentinel are sent; an exception
\* is caught, and an error event and the sentinel are sent.
SimpleStreamEnds(o) ==
    /\ endpoint = "simple" /\ reqStream
    /\ hpc = "prompt"
    /\ hpc' = "done"
    /\ timedOut' = (timedOut \/ o = "timeout")
    /\ cmdFailed' = (cmdFailed \/ o = "error")
    /\ IF o = "ok"
       THEN /\ events' = events \o <<"stop", "[DONE]">>
            /\ usage' = <<EstimateTokens(full_prompt.len), 0, 0>>
       ELSE /\ events' = events \o <<"error", "[DONE]">>
            /\ UNCHANGED usage
    /\ UNCHANGED <<endpoint, reqStream, status_code, statsOut, full_prompt>>
    /\ UNCHANGED <<poolVars, handlerVars, proc, cmdVars, sanVars, chunkVars,
                 shotVars>>

\* The next request: the response was sent, or the stream ended.
NextRequest ==
    /\ hpc = "done"
    /\ endpoint' = "pooled"
    /\ reqStream' = FALSE
    /\ hpc' = "idle"
    /\ status_code' = NoStatus
    /\ events' = <<>>
    /\ usage' = <<>>
    /\ timedOut' = FALSE
    /\ cmdFailed' = FALSE
    /\ statsOut' = NoText
    /\ full_prompt' = NoPrompt
    /\ UNCHANGED <<poolVars, handlerVars, proc, cmdVars, sanVars, chunkVars,
                 shotVars>>

NextHttp ==
    \/ \E e \in {"pooled", "simple"}, s \in BOOLEAN, p \in Prompts : Request(e, s, p)
    \/ \E o \in CommandOutcomes, text \in StatsTexts : PooledCommand(o, text)
    \/ \E k \in {"content", "error"} : PooledStreamYield(k)
    \/ \E o \in CommandOutcomes, text \in StatsTexts : PooledStreamCommand(o, text)
    \/ \E o \in CommandOutcomes, n \in ResponseLens, text \in ErrorTexts :
            SimpleExecute(o, n, text)
    \/ SimpleStreamYield
    \/ \E o \in CommandOutcomes : SimpleStreamEnds(o)
    \/ NextRequest

InitHttp == Init /\ pool_size = 1

SpecHttp == InitHttp /\ [][NextHttp]_vars

----------------------------------------------------------------------------
\* The output sanitizer (output_comparison.py).  A text is a sequence of
\* characters; a character is a one-character string, except that ESC
\* stands for \x1b and "U+2502" and the like for the box-drawing and block
\* characters.

ESC == "ESC"
NL == "\n"

Digits == {"0", "1", "2", "3", "4", "5", "6", "7", "8", "9"}
UpperCase == <<"A", "B", "C", "D", "E", "F", "G", "H", "I", "J", "K", "L", "M",
               "N", "O", "P", "Q", "R", "S", "T", "U", "V", "W", "X", "Y", "Z">>
LowerCase == <<"a", "b", "c", "d", "e", "f", "g", "h", "i", "j", "k", "l", "m",
               "n", "o", "p", "q", "r", "s", "t", "u", "v", "w", "x", "y", "z">>

\* The character classes of the patterns, by code point (the grave accent,
\* which no text of the model has, is left out of [@-~]).
ClassFe == {"@"} \cup Range(UpperCase) \cup {"\\", "]", "^", "_"}       \* [@-Z\\-_]
ClassParam == Digits \cup {":", ";", "<", "=", ">", "?"}                \* [0-?]
ClassIntermediate == {" ", "!", "\"", "#", "$", "%", "&", "'", "(", ")",
                      "*", "+", ",", "-", ".", "/"}                     \* [ -/]
ClassFinal == {"@"} \cup Range(UpperCase) \cup {"[", "\\", "]", "^", "_"}
                  \cup Range(LowerCase) \cup {"{", "|", "}", "~"}       \* [@-~]

\* The characters the sanitizer looks for in a UI decoration line.
UiChars == {"U+256D", "U+2570", "U+2502", "U+2591", "U+2588"}

\* Every character of the model.
Chars == {ESC, NL, "\t", "\r"} \cup ClassParam \cup ClassIntermediate
             \cup ClassFinal \cup UiChars \cup {"U+2500"}

\* No match of a pattern at a position.
NoMatch == 0

\* The first index from i on at which s has no character of class.
RECURSIVE SkipClass(_, _, _)
SkipClass(s, i, class) ==
    IF i <= Len(s) /\ s[i] \in class THEN SkipClass(s, i + 1, class) ELSE i

\* s has the characters of lit at index i and after.
HasAt(s, i, lit) ==
    /\ i + Len(lit) - 1 <= Len(s)
    /\ \A k \in 1..Len(lit) : s[i + k - 1] = lit[k]

\* A match that must end with one character of class, at k.
EndsAt(s, k, class) == IF k <= Len(s) /\ s[k] \in class THEN k ELSE NoMatch

\* ESC [ lit star* final: the last index of the match at i, or NoMatch.  The
\* class of the star and the final class are disjoint in every pattern, so
\* the greedy star never has to give a character back.
MatchCsi(s, i, lit, star, final) ==
    IF HasAt(s, i, <<ESC, "[">> \o lit)
    THEN EndsAt(s, SkipClass(s, i + 2 + Len(lit), star), final)
    ELSE NoMatch

\* \x1B(?:[@-Z\\-_]|\[[0-?]*[ -/]*[@-~])
MatchStandard(s, i) ==
    IF ~HasAt(s, i, <<ESC>>) \/ i + 1 > Len(s) THEN NoMatch
    ELSE IF s[i + 1] \in ClassFe THEN i + 1
    ELSE IF s[i + 1] = "["
    THEN EndsAt(s, SkipClass(s, SkipClass(s, i + 2, ClassParam),
                             ClassIntermediate), ClassFinal)
    ELSE NoMatch

\* \x1b\[[^m]*m? : everything up to the next m, or to the end of the text
\* ([^m] is any character but m, line breaks included).
MatchFallback(s, i) ==
    IF HasAt(s, i, <<ESC, "[">>)
    THEN LET k == SkipClass(s, i + 2, Chars \ {"m"})
         IN  IF k <= Len(s) THEN k ELSE Len(s)
    ELSE NoMatch

\* The patterns of advanced_ansi_cleaning, in order; "fallback" is the one
\* applied after them.
ansi_patterns == <<"standard", "colour", "rgb", "cursor", "other",
                   "clear_line", "cursor_up", "column">>

\* The last index of the match of pattern p in s at i, or NoMatch.
MatchEnd(p, s, i) ==
    CASE p = "standard"   -> MatchStandard(s, i)
      [] p = "colour"     -> MatchCsi(s, i, <<>>, Digits \cup {";"}, {"m"})
      [] p = "rgb"        -> MatchCsi(s, i, <<"3", "8", ";", "2", ";">>, Digits \cup {";"}, {"m"})
      [] p = "cursor"     -> MatchCsi(s, i, <<>>, Digits, Range(UpperCase))
      [] p = "other"      -> MatchCsi(s, i, <<>>, Digits, Range(LowerCase))
      [] p = "clear_line" -> MatchCsi(s, i, <<"2">>, {}, {"K"})
      [] p = "cursor_up"  -> MatchCsi(s, i, <<"1">>, {}, {"A"})
      [] p = "column"     -> MatchCsi(s, i, <<>>, {}, {"G"})
      [] p = "fallback"   -> MatchFallback(s, i)

\* re.sub(p, '', s) from index i on: the matches are found from left to
\* right, each search starting after the last match.
RECURSIVE SubFrom(_, _, _)
SubFrom(p, s, i) ==
    IF i > Len(s) THEN <<>>
    ELSE LET e == MatchEnd(p, s, i)
         IN  IF e # NoMatch THEN SubFrom(p, s, e + 1)
             ELSE <<s[i]>> \o SubFrom(p, s, i + 1)

\* for pattern in ansi_patterns: cleaned = re.sub(pattern, '', cleaned)
RECURSIVE SubAll(_, _)
SubAll(ps, s) ==
    IF ps = <<>> THEN s ELSE SubAll(Tail(ps), SubFrom(Head(ps), s, 1))

advanced_ansi_cleaning_fallback_only(t) == SubFrom("fallback", t, 1)
advanced_ansi_cleaning(t) == SubFrom("fallback", SubAll(ansi_patterns, t), 1)

\* str.split(sep): the pieces between the separators.
RECURSIVE Split(_, _)
Split(s, sep) ==
    IF \E k \in 1..Len(s) : s[k] = sep
    THEN LET k == CHOOSE k \in 1..Len(s) :
                      s[k] = sep /\ \A j \in 1..(k - 1) : s[j] # sep
         IN  <<SubSeq(s, 1, k - 1)>> \o Split(SubSeq(s, k + 1, Len(s)), sep)
    ELSE <<s>>

\* sep.join(pieces).
RECURSIVE Join(_, _)
Join(pieces, sep) ==
    IF pieces = <<>> THEN <<>>
    ELSE IF Len(pieces) = 1 THEN pieces[1]
    ELSE pieces[1] \o <<sep>> \o Join(Tail(pieces), sep)

\* str.strip(): without the white space at both ends.
Whitespace == {" ", "\t", NL, "\r"}
StripLine(s) ==
    LET inner == {i \in 1..Len(s) : s[i] \notin Whitespace}
    IN  IF inner = {} THEN <<>>
        ELSE SubSeq(s, CHOOSE i \in inner : \A j \in inner : i <= j,
                       CHOOSE i \in inner : \A j \in inner : i >= j)

\* str.lower().
Lower(s) ==
    [i \in 1..Len(s) |->
        IF \E k \in 1..Len(UpperCase) : UpperCase[k] = s[i]
        THEN LowerCase[CHOOSE k \in 1..Len(UpperCase) : UpperCase[k] = s[i]]
        ELSE s[i]]

\* pat in s.
Contains(s, pat) == \E i \in 1..(Len(s) - Len(pat) + 1) : HasAt(s, i, pat)

skip_patterns ==
    <<<<"t", "i", "p", "s", " ", "f", "o", "r", " ", "g", "e", "t", "t",
      "i", "n", "g", " ", "s", "t", "a", "r", "t", "e", "d">>,
      <<"a", "s", "k", " ", "q", "u", "e", "s", "t", "i", "o", "n", "s",
      ",", " ", "e", "d", "i", "t", " ", "f", "i", "l", "e", "s">>,
      <<"b", "e", " ", "s", "p", "e", "c", "i", "f", "i", "c", " ", "f",
      "o", "r", " ", "t", "h", "e", " ", "b", "e", "s", "t">>,
      <<"r", "e", "t", "r", "y", " ", "b", "a", "c", "k", "o", "f", "f",
      ":">>,
      <<"/", "h", "e", "l", "p", " ", "f", "o", "r", " ", "m", "o", "r",
      "e", " ", "i", "n", "f", "o", "r", "m", "a", "t", "i", "o", "n">>>>

\* any(char in line_stripped for char in [...]): the line has a UI character.
HasUiChar(l) == \E i \in 1..Len(l) : l[i] \in UiChars

\* any(pattern in line_lower for pattern in skip_patterns).
IsSystemMessage(l) ==
    \E i \in 1..Len(skip_patterns) : Contains(Lower(l), skip_patterns[i])

\* The loop of smart_content_extraction over the lines: the stripped lines
\* that are not empty, have no UI character and are no system message.
RECURSIVE MeaningfulLines(_)
MeaningfulLines(ls) ==
    IF ls = <<>> THEN <<>>
    ELSE LET line_stripped == StripLine(Head(ls))
         IN  IF \/ line_stripped = <<>>
                \/ HasUiChar(line_stripped)
                \/ IsSystemMessage(line_stripped)
             THEN MeaningfulLines(Tail(ls))
             ELSE <<line_stripped>> \o MeaningfulLines(Tail(ls))

smart_content_extraction(t) ==
    Join(MeaningfulLines(Split(advanced_ansi_cleaning(t), NL)), NL)

\* The inputs: every text of at most MaxLen characters over SanAlphabet,
\* the scenario of a coloured word, and texts of at most MaxLines lines
\* taken from SmartLines.
MaxLen == 5
MaxLines == 2

SanAlphabet == {ESC, "[", "8", ";", "m", "A", NL}

Scenario ==
    <<ESC, "[", "3", "8", ";", "2", ";", "2", "5", "5", ";", "0", ";", "0",
    "m", "H", "e", "l", "l", "o", ESC, "[", "3", "9", "m">>

\* The lines the texts for smart_content_extraction are made of.
SmartLines ==
    {<<>>,    \* an empty line
     <<" ", " ">>,    \* a blank line
     <<" ", "H", "i", " ">>,    \* a line of text
     <<"U+2502", " ", "H", "i", " ", "U+2502">>,    \* a line of text in a box
     <<"U+2502", "U+2591", "U+2588">>,    \* a decoration line
     <<"T", "i", "p", "s", " ", "F", "o", "r", " ", "G", "e", "t", "t",
     "i", "n", "g", " ", "S", "t", "a", "r", "t", "e", "d", ":">>,    \* a banner line
     <<"*", " ", "R", "e", "t", "r", "y", " ", "b", "a", "c", "k", "o",
     "f", "f", ":", " ", "1", "5", "s">>,    \* another banner line
     <<ESC, "[", "3", "8", ";", "2", ";", "1", ";", "2", ";", "3", "m",
     "H", "i", ESC, "[", "3", "9", "m">>}    \* a coloured line of text

SanInputs ==
    UNION {[1..n -> SanAlphabet] : n \in 0..MaxLen}
        \cup {Scenario}
        \cup {Join(ls, NL) : ls \in UNION {[1..n -> SmartLines] : n \in 1..MaxLines}}

\* The functions are applied one after the other.
Clean ==
    /\ sanPc = "raw"
    /\ cleaned' = advanced_ansi_cleaning(raw_output)
    /\ sanPc' = "cleaned"
    /\ UNCHANGED <<raw_output, recleaned, extracted, reextracted>>
    /\ UNCHANGED <<poolVars, handlerVars, proc, cmdVars, httpVars, chunkVars,
                 shotVars>>

CleanAgain ==
    /\ sanPc = "cleaned"
    /\ recleaned' = advanced_ansi_cleaning(cleaned)
    /\ sanPc' = "recleaned"
    /\ UNCHANGED <<raw_output, cleaned, extracted, reextracted>>
    /\ UNCHANGED <<poolVars, handlerVars, proc, cmdVars, httpVars, chunkVars,
                 shotVars>>

Extract ==
    /\ sanPc = "recleaned"
    /\ extracted' = smart_content_extraction(raw_output)
    /\ sanPc' = "extracted"
    /\ UNCHANGED <<raw_output, cleaned, recleaned, reextracted>>
    /\ UNCHANGED <<poolVars, handlerVars, proc, cmdVars, httpVars, chunkVars,
                 shotVars>>

ExtractAgain ==
    /\ sanPc = "extracted"
    /\ reextracted' = smart_content_extraction(extracted)
    /\ sanPc' = "done"
    /\ UNCHANGED <<raw_output, cleaned, recleaned, extracted>>
    /\ UNCHANGED <<poolVars, handlerVars, proc, cmdVars, httpVars, chunkVars,
                 shotVars>>

InitSan ==
    /\ CmdInit
    /\ ServiceInit
    /\ pool_size = 1
    /\ HttpInit
    /\ ChunkInit
    /\ ShotInit
    /\ raw_output \in SanInputs
    /\ cleaned = <<>>
    /\ recleaned = <<>>
    /\ extracted = <<>>
    /\ reextracted = <<>>
    /\ sanPc = "raw"

NextSan == Clean \/ CleanAgain \/ Extract \/ ExtractAgain

SpecSan == InitSan /\ [][NextSan]_vars

----------------------------------------------------------------------------
\* The stream chunker: the read loop of execute_prompt_stream
\* (gemini_simple.py), from the spawn of the subprocess to the end of the
\* generator.  The subprocess's output is a text in UTF-8; a read returns
\* any number of the bytes not yet read, at most ReadSize.

ReadSize == 1024

\* Bounds: the characters of the output, and the buffer-size threshold the
\* properties are checked with.
MaxInput == 4
BufferThreshold == 2

\* The texts of the output; the character "U+00E9" takes two bytes in UTF-8.
StreamTexts == UNION {[1..n -> {"a", " ", NL, "U+00E9"}] : n \in 0..MaxInput}

\* str.encode('utf-8'), as the subprocess writes its text.
RECURSIVE Encode(_)
Encode(t) ==
    IF t = <<>> THEN <<>>
    ELSE (IF Head(t) = "U+00E9" THEN <<"0xC3", "0xA9">> ELSE <<Head(t)>>)
             \o Encode(Tail(t))

\* data.decode('utf-8', errors='ignore'): a lead byte with its continuation
\* byte is a character; a lead byte or a continuation byte alone is dropped.
RECURSIVE Decode(_)
Decode(bs) ==
    IF bs = <<>> THEN <<>>
    ELSE IF Head(bs) = "0xC3"
    THEN IF Len(bs) >= 2 /\ bs[2] = "0xA9"
         THEN <<"U+00E9">> \o Decode(Tail(Tail(bs)))
         ELSE Decode(Tail(bs))
    ELSE IF Head(bs) = "0xA9" THEN Decode(Tail(bs))
    ELSE <<Head(bs)>> \o Decode(Tail(bs))

\* for line in ...: if line.strip(): yield line.strip()
RECURSIVE Yielded(_)
Yielded(ls) ==
    IF ls = <<>> THEN <<>>
    ELSE (IF StripLine(Head(ls)) # <<>> THEN <<StripLine(Head(ls))>> ELSE <<>>)
             \o Yielded(Tail(ls))

\* One iteration of the loop in which read returns data, n bytes of it: the
\* data is decoded and appended to the buffer, the buffer is split at the
\* line breaks, its last piece is kept as the buffer, and the other
\* pieces are yielded, stripped, unless blank.
ReadChunk(n) ==
    /\ chunkPc = "reading"
    /\ n \in 1..Len(unread)
    /\ n <= ReadSize
    /\ LET chunk == Decode(SubSeq(unread, 1, n))
           lines == Split(buffer \o chunk, NL)
       IN  /\ buffer' = lines[Len(lines)]
           /\ fragments' = fragments \o Yielded(SubSeq(lines, 1, Len(lines) - 1))
    /\ unread' = SubSeq(unread, n + 1, Len(unread))
    /\ UNCHANGED <<stream_input, chunkPc>>
    /\ UNCHANGED <<poolVars, handlerVars, proc, cmdVars, httpVars, sanVars,
                 shotVars>>

\* The loop ends: read returns no data at the end of the stream (or times
\* out after the subprocess exited).  What is left in the buffer is
\* yielded, stripped, unless blank; then the exit code rc is checked.
ReadEof(rc) ==
    /\ chunkPc = "reading"
    /\ unread = <<>>
    /\ fragments' = fragments \o Yielded(<<buffer>>)
    /\ chunkPc' = IF rc = 0 THEN "returned" ELSE "RuntimeError"
    /\ UNCHANGED <<stream_input, unread, buffer>>
    /\ UNCHANGED <<poolVars, handlerVars, proc, cmdVars, httpVars, sanVars,
                 shotVars>>

\* The check at the top of the loop finds the timeout exceeded: the
\* subprocess is killed and TimeoutError raised; the buffer is not yielded.
\* Where asyncio.TimeoutError is not the builtin TimeoutError (sameClass is
\* false: before Python 3.11) "except Exception" turns it into RuntimeError.
Deadline(sameClass) ==
    /\ chunkPc = "reading"
    /\ chunkPc' = IF sameClass THEN "TimeoutError" ELSE "RuntimeError"
    /\ UNCHANGED <<stream_input, unread, buffer, fragments>>
    /\ UNCHANGED <<poolVars, handlerVars, proc, cmdVars, httpVars, sanVars,
                 shotVars>>

InitChunk ==
    /\ CmdInit
    /\ ServiceInit
    /\ pool_size = 1
    /\ HttpInit
    /\ SanInit
    /\ ShotInit
    /\ stream_input \in StreamTexts
    /\ unread = Encode(stream_input)
    /\ buffer = <<>>
    /\ fragments = <<>>
    /\ chunkPc = "reading"

NextChunk ==
    \/ \E n \in 1..(2 * MaxInput) : ReadChunk(n)
    \/ \E rc \in {0, 1} : ReadEof(rc)
    \/ \E sameClass \in BOOLEAN : Deadline(sameClass)

SpecChunk == InitChunk /\ [][NextChunk]_vars

----------------------------------------------------------------------------
\* One-shot mode: one call of execute_prompt (gemini_simple.py), from the
\* spawn of its subprocess to its return or its exception.  The subprocess
\* writes characters to its two pipes, in UTF-8, and exits with a code.

\* Bounds: the characters the subprocess writes to stdout and to stderr.
MaxOut == 2
MaxErr == 2

\* asyncio.create_subprocess_exec returns the subprocess, or raises (no such
\* file, for one): "except Exception" raises RuntimeError, and there is no
\* subprocess.
CreateSubprocess(ok) ==
    /\ shotPc = "spawn"
    /\ shotPc' = IF ok THEN "communicate" ELSE "RuntimeError"
    /\ child' = IF ok THEN [state |-> "running", returncode |-> NoReturncode]
                ELSE child
    /\ UNCHANGED <<out_pipe, err_pipe, response, error_msg>>
    /\ UNCHANGED <<poolVars, handlerVars, proc, cmdVars, httpVars, sanVars,
                   chunkVars>>

\* The subprocess writes a character to stdout.  It runs on whether or not
\* execute_prompt still waits for it.
ChildWritesStdout(c) ==
    /\ child.state = "running"
    /\ Len(Decode(out_pipe)) < MaxOut
    /\ out_pipe' = out_pipe \o Encode(<<c>>)
    /\ UNCHANGED <<shotPc, child, err_pipe, response, error_msg>>
    /\ UNCHANGED <<poolVars, handlerVars, proc, cmdVars, httpVars, sanVars,
                   chunkVars>>

\* The subprocess writes a character to stderr.
ChildWritesStderr(c) ==
    /\ child.state = "running"
    /\ Len(Decode(err_pipe)) < MaxErr
    /\ err_pipe' = err_pipe \o Encode(<<c>>)
    /\ UNCHANGED <<shotPc, child, out_pipe, response, error_msg>>
    /\ UNCHANGED <<poolVars, handlerVars, proc, cmdVars, httpVars, sanVars,
                   chunkVars>>

\* The subprocess exits with code rc.
ChildExits(rc) ==
    /\ child.state = "running"
    /\ child' = [state |-> "exited", returncode |-> rc]
    /\ UNCHANGED <<shotPc, out_pipe, err_pipe, response, error_msg>>
    /\ UNCHANGED <<poolVars, handlerVars, proc, cmdVars, httpVars, sanVars,
                   chunkVars>>

\* process.communicate() returns within the timeout: the subprocess has
\* exited and both pipes were read to their end.  A returncode other than 0
\* raises RuntimeError with the stripped text of stderr ("except Exception"
\* catches it and raises a RuntimeError whose message ends with the message
\* of the first); otherwise the stripped text of stdout is returned.
CommunicateReturns ==
    /\ shotPc = "communicate"
    /\ child.state = "exited"
    /\ IF child.returncode # 0
       THEN /\ shotPc' = "RuntimeError"
            /\ error_msg' = StripLine(Decode(err_pipe))
            /\ UNCHANGED response
       ELSE /\ shotPc' = "returned"
            /\ response' = StripLine(Decode(out_pipe))
            /\ UNCHANGED error_msg
    /\ UNCHANGED <<child, out_pipe, err_pipe>>
    /\ UNCHANGED <<poolVars, handlerVars, proc, cmdVars, httpVars, sanVars,
                   chunkVars>>

\* asyncio.wait_for reaches its timeout while the subprocess runs: it
\* cancels communicate() and raises asyncio.TimeoutError, and the except
\* clause raises TimeoutError.  Nothing on this path touches the subprocess.
CommunicateTimesOut ==
    /\ shotPc = "communicate"
    /\ child.state = "running"
    /\ shotPc' = "TimeoutError"
    /\ UNCHANGED <<child, out_pipe, err_pipe, response, error_msg>>
    /\ UNCHANGED <<poolVars, handlerVars, proc, cmdVars, httpVars, sanVars,
                   chunkVars>>

InitShot ==
    /\ CmdInit
    /\ ServiceInit
    /\ pool_size = 1
    /\ HttpInit
    /\ SanInit
    /\ ChunkInit
    /\ shotPc = "spawn"
    /\ child = [state |-> "none", returncode |-> NoReturncode]
    /\ out_pipe = <<>>
    /\ err_pipe = <<>>
    /\ response = <<>>
    /\ error_msg = <<>>

NextShot ==
    \/ \E ok \in BOOLEAN : CreateSubprocess(ok)
    \/ \E c \in {"a", " ", "U+00E9"} : ChildWritesStdout(c)
    \/ \E c \in {"e", " "} : ChildWritesStderr(c)
    \/ \E rc \in {0, 1} : ChildExits(rc)
    \/ CommunicateReturns
    \/ CommunicateTimesOut

SpecShot == InitShot /\ [][NextShot]_vars

----------------------------------------------------------------------------
\* Properties of the response, under SpecHttp.

\* The text is not usage data: it is not a JSON object, or a usage field of
\* it is not an integer.
NotUsageData(text) ==
    LET j == JsonLoads(text)
    IN  j.type # "dict" \/ \E i \in 1..3 : j.items[i][1] = "None"

\* The events of a complete stream: partial-content events, one terminal
\* event, the sentinel.
WellFormedStream(es) ==
    /\ Len(es) >= 2
    /\ \A i \in 1..(Len(es) - 2) : es[i] = "content"
    /\ es[Len(es) - 1] = "stop"
    /\ es[Len(es)] = "[DONE]"

\* C22: when the output of "/stats" is not usage data, whatever the text,
\* the pooled request still succeeds (status 200, and a complete stream if
\* it streams) and reports zero for all three usage fields.
C22_UnparsableStatsGiveZero ==
    hpc = "done" /\ endpoint = "pooled" /\ statsOut # NoText /\ NotUsageData(statsOut)
        => /\ status_code = HTTP_200_OK
           /\ usage = <<0, 0, 0>>
           /\ reqStream => WellFormedStream(events)

\* C23: in both applications a request ends with status 504 exactly if one
\* of its commands timed out, and with status 500 if a command failed in any
\* other way.
C23_TimeoutIffGatewayTimeout ==
    hpc = "done" =>
        /\ status_code = HTTP_504_GATEWAY_TIMEOUT <=> timedOut
        /\ cmdFailed => status_code = HTTP_500_INTERNAL_SERVER_ERROR

\* C24: every streaming response that has ended, on every path of the two
\* generators, is partial-content events, then exactly one terminal event
\* with finish_reason "stop", then the sentinel "[DONE]" as the last event.
C24_StreamEndsWithStopThenDone ==
    hpc = "done" /\ reqStream /\ status_code = HTTP_200_OK
        => WellFormedStream(events)

----------------------------------------------------------------------------
\* Properties of the sanitizer, under SpecSan.

\* A complete control sequence at i: ESC, "[", digits and semicolons, and a
\* letter.  Its last index, or NoMatch.
SequenceEnd(s, i) ==
    IF HasAt(s, i, <<ESC, "[">>)
    THEN EndsAt(s, SkipClass(s, i + 2, Digits \cup {";"}),
                Range(UpperCase) \cup Range(LowerCase))
    ELSE NoMatch

\* Every ESC of s begins a complete control sequence.
EveryEscComplete(s) ==
    \A i \in 1..Len(s) : s[i] = ESC => SequenceEnd(s, i) # NoMatch

\* s without its complete control sequences.
RECURSIVE WithoutSequences(_, _)
WithoutSequences(s, i) ==
    IF i > Len(s) THEN <<>>
    ELSE IF SequenceEnd(s, i) # NoMatch
    THEN WithoutSequences(s, SequenceEnd(s, i) + 1)
    ELSE <<s[i]>> \o WithoutSequences(s, i + 1)

\* The characters of s that belong to no control sequence, in order.  A
\* control sequence is one the standard pattern matches; or ESC, "[" and
\* the parameter and intermediate characters after them, when no final
\* character ends them (a malformed or unterminated sequence); or an ESC
\* alone.
RECURSIVE LegitimateText(_, _)
LegitimateText(s, i) ==
    IF i > Len(s) THEN <<>>
    ELSE IF s[i] # ESC THEN <<s[i]>> \o LegitimateText(s, i + 1)
    ELSE IF MatchStandard(s, i) # NoMatch
    THEN LegitimateText(s, MatchStandard(s, i) + 1)
    ELSE IF HasAt(s, i, <<ESC, "[">>)
    THEN LegitimateText(s, SkipClass(s, SkipClass(s, i + 2, ClassParam),
                                     ClassIntermediate))
    ELSE LegitimateText(s, i + 1)

\* The characters of a are in b, in order.
RECURSIVE IsSubsequence(_, _)
IsSubsequence(a, b) ==
    IF a = <<>> THEN TRUE
    ELSE IF b = <<>> THEN FALSE
    ELSE IF Head(a) = Head(b) THEN IsSubsequence(Tail(a), Tail(b))
    ELSE IsSubsequence(a, Tail(b))

\* A line that is nothing but UI decoration.
IsPureDecoration(l) ==
    l # <<>> /\ \A i \in 1..Len(l) : l[i] \in UiChars \cup Whitespace \cup {"U+2500"}

\* The lines that are to be kept: trimmed, in order, all but the empty
\* ones, the pure decoration and the system messages.
RECURSIVE KeptLines(_)
KeptLines(ls) ==
    IF ls = <<>> THEN <<>>
    ELSE LET l == StripLine(Head(ls))
         IN  IF l = <<>> \/ IsPureDecoration(l) \/ IsSystemMessage(l)
             THEN KeptLines(Tail(ls))
             ELSE <<l>> \o KeptLines(Tail(ls))

\* C25: sanitize is idempotent, in both variants: cleaning the cleaned text
\* changes nothing, and extracting from the extracted text changes nothing.
C25_SanitizeIdempotent ==
    /\ sanPc \in {"recleaned", "extracted", "done"} => recleaned = cleaned
    /\ sanPc = "done" => reextracted = extracted

\* C26: sanitize removes colour sequences and leaves the text between them
\* unchanged: a text with no ESC is returned unchanged, a text whose every
\* ESC begins a complete control sequence is returned without its sequences
\* (the empty text if it is made of sequences only), and the coloured word
\* of the scenario is returned as "Hello".
C26_RemovesSequencesKeepsText ==
    sanPc # "raw" =>
        /\ ESC \notin Range(raw_output) => cleaned = raw_output
        /\ EveryEscComplete(raw_output) => cleaned = WithoutSequences(raw_output, 1)
        /\ raw_output = Scenario => cleaned = <<"H", "e", "l", "l", "o">>

\* The scenario was cleaned, and so was a text made of two control sequences.
C26_Witness ==
    /\ sanPc = "done"
    /\ \/ raw_output = Scenario /\ cleaned = <<"H", "e", "l", "l", "o">>
       \/ raw_output = <<ESC, "[", "8", "m", "A">> /\ cleaned = <<"A">>

\* C27: the fallback pattern absorbs no legitimate character: every
\* character of the input that belongs to no control sequence, the text
\* after a malformed or unterminated introducer included, is in the output,
\* in order.
C27_FallbackKeepsText ==
    sanPc # "raw" => IsSubsequence(LegitimateText(raw_output, 1), cleaned)

\* C28: the smart sanitizer removes a line only if it is empty, is pure UI
\* decoration or has a deny-listed substring; every other line is kept,
\* trimmed, in order, a line with text next to a box-drawing character
\* included.
C28_RemovesOnlyDecoration ==
    sanPc = "done" => extracted = Join(KeptLines(Split(cleaned, NL)), NL)

----------------------------------------------------------------------------
\* Properties of the stream chunker, under SpecChunk.

\* The fragments, concatenated.
RECURSIVE Concat(_)
Concat(fs) == IF fs = <<>> THEN <<>> ELSE Head(fs) \o Concat(Tail(fs))

\* C29: when the generator has returned, the fragments it yielded,
\* concatenated in order, are the text the subprocess wrote, white space and
\* line breaks included, however the reads split it.
C29_FragmentsReconstructInput ==
    chunkPc = "returned" => Concat(fragments) = stream_input

\* C30: the buffer never holds more characters than the threshold, and when
\* a text longer than the threshold has been read a fragment has been
\* yielded, before the end of the stream is seen.
C30_BufferBounded ==
    chunkPc = "reading" =>
        /\ Len(buffer) <= BufferThreshold
        /\ unread = <<>> /\ Len(stream_input) > BufferThreshold
               => fragments # <<>>

----------------------------------------------------------------------------
\* Properties of execute_prompt, under SpecShot.

\* C31: execute_prompt returns the stripped standard output exactly if the
\* subprocess exited with code 0 within the timeout; a non-zero exit code
\* raises an error that carries the text of stderr, a timeout raises
\* TimeoutError, and after either failure the subprocess is not running.
C31_OneShotOutcome ==
    shotPc \in {"returned", "RuntimeError", "TimeoutError"} /\ child.state # "none" =>
        /\ shotPc = "returned" =>
               child.returncode = 0 /\ response = StripLine(Decode(out_pipe))
        /\ shotPc = "RuntimeError" =>
               child.returncode \notin {0, NoReturncode}
                   /\ error_msg = StripLine(Decode(err_pipe))
        /\ shotPc # "returned" => child.state # "running"

----------------------------------------------------------------------------
\* Properties of a worker that is used for several commands, under SpecCmd.

\* C32: when a call of execute_command on a worker that has served a
\* command before starts to read, no delimiter line is unread (the
\* subprocess writes one only in answer to a delimiter it received, so such a
\* line answers an earlier command), and the text a call returns is made of
\* lines the subprocess wrote during that call.
C32_NoStateOutlivesCall ==
    nCommands >= 2 =>
        /\ cmdPc = "reading" /\ emitted = <<>> =>
               \A i \in 1..Len(stdoutPipe) : ~stdoutPipe[i].delim
        /\ cmdPc = "ended" /\ exc = "none" =>
               \A i \in 1..Len(yielded) : \A j \in 1..Len(yielded[i][1]) :
                   \E k \in 1..Len(emitted) :
                       yielded[i][1][j] = Strip(emitted[k].text)

\* The text contains the delimiter token.
HasDelimiter(t) == \E l \in Lines : l.delim /\ t = Render(l)

\* C33: no text that execute_command yields to its caller, streaming or not,
\* after an error or not, contains the delimiter token.
C33_NoDelimiterInOutput ==
    \A i \in 1..Len(yielded) : \A j \in 1..Len(yielded[i][1]) :
        ~HasDelimiter(yielded[i][1][j])

\* C34: a call of execute_command on a worker whose subprocess is not
\* running (never started, stopped, or exited) raises RuntimeError at once:
\* nothing is written to stdin, nothing is read or yielded, and the worker's
\* handle and pipes are as before.
C34_NotRunningFailsBeforeWrite ==
    [][(cmdPc \in {"idle", "ended"} /\ nCommands' = nCommands + 1
            /\ (proc[CmdWorker] # "running" \/ died))
       => (cmdPc' = "ended" /\ exc' = "RuntimeError" /\ yielded' = <<>>
            /\ proc' = proc /\ canEcho' = canEcho /\ stdinClosed' = stdinClosed
            /\ stdoutPipe' = stdoutPipe /\ stderrPipe' = stderrPipe)]_vars

\* C34, amended: a call of execute_command on a worker whose handle is unset
\* (never started, stopped) or whose subprocess's exit asyncio has recorded
\* (returncode is set) raises RuntimeError at once: nothing is written to
\* stdin, nothing is read or yielded, and the worker's handle and pipes are
\* as before.
C34_RecordedNotRunningFails ==
    [][(cmdPc \in {"idle", "ended"} /\ nCommands' = nCommands + 1
            /\ proc[CmdWorker] # "running")
       => (cmdPc' = "ended" /\ exc' = "RuntimeError" /\ yielded' = <<>>
            /\ proc' = proc /\ canEcho' = canEcho /\ stdinClosed' = stdinClosed
            /\ stdoutPipe' = stdoutPipe /\ stderrPipe' = stderrPipe)]_vars

\* The first call on the worker found the subprocess not running, and
\* nothing has ever been written to its stdin.
C34_Witness ==
    /\ cmdPc = "ended"
    /\ exc = "RuntimeError"
    /\ nCommands = 1
    /\ proc[CmdWorker] # "running"
    /\ ~canEcho

----------------------------------------------------------------------------
\* Properties of the spawn-per-request endpoint, under SpecHttp.

\* C35: a request to main_simple whose user messages, joined, are blank ends
\* with status 400, and no command was run for it: nothing timed out or
\* failed, and no event and no usage was produced.
C35_BlankPromptIsBadRequest ==
    hpc = "done" /\ endpoint = "simple" /\ full_prompt.blank =>
        /\ status_code = HTTP_400_BAD_REQUEST
        /\ ~timedOut /\ ~cmdFailed
        /\ events = <<>> /\ usage = <<>>

====
